---- MODULE Spec2Model ----
(***************************************************************************)
(* Model of the document-processing pipeline of Telegram-Knowledge-Bot:    *)
(* RetryHandler, OpenAISummarizer, KeywordExtractor, LanguageDetector, the *)
(* parsers as seen by DocumentProcessor._parse_document, the audit logger  *)
(* and DocumentProcessor.process_document.                                 *)
(*                                                                         *)
(* A text is a sequence of character tokens, one token per character:      *)
(*   "x"  a Latin letter            "zh" a Cyrillic letter                 *)
(*   "a"  the Latin letter a (the English marker word when it stands alone)*)
(*   "ya" the Cyrillic letter ya (a Russian marker word when alone)        *)
(*   "X"  "A"  their upper-case forms                                      *)
(*   "."  "!"  "?"  sentence-terminal punctuation                          *)
(*   " "  whitespace   "nl" a line break          "1"  a digit             *)
(***************************************************************************)
EXTENDS Integers, Sequences, FiniteSets, TLC

\* Python's None where a string is expected
None == "None"

\* an Optional of any other type: <<>> is None, <<v>> is v
Nothing == <<>>

Some(v) == <<v>>

IsNothing(o) == o = <<>>

Get(o) == o[1]

\* ------------------------------------------------------------ bounds
\* largest max_retries a RetryConfig is constructed with
MaxMaxRetries == 3
\* operations started on one set of objects in one behaviour
MaxOps == 2
\* chunks in the body of one downloaded response
MaxChunks == 2
\* pages of one scanned document in the concurrent process_pdf_pages calls
MaxPages == 2

\* ------------------------------------------------------------ program constants
MIN_SENTENCES == 3
MAX_SENTENCES == 7
MIN_TEXT_FOR_SUMMARY == 100
MIN_KEYWORDS == 5
MAX_KEYWORDS == 10
MIN_KEYWORD_TEXT == 10
MIN_KEYWORD_LEN == 2
DEFAULT_MAX_NGRAM_SIZE == 2
ESCALATED_NGRAM_SIZE == 3
KEYWORDS_MAX_COUNT == 10
DEFAULT_MAX_RETRIES == 3
\* RetryConfig defaults, delays in milliseconds
BASE_DELAY_MS == 1000
MAX_DELAY_MS == 30000
EXPONENTIAL_BASE == 2
\* sys.float_info.max_exp of the floats get_delay computes in
FLOAT_MAX_EXP == 1024
\* 20 * 1024 * 1024
MAX_FILE_SIZE_BYTES == 20971520

\* ------------------------------------------------------------ enumerations
FileType == {"pdf", "docx", "txt", "md"}

ProcessingStatus == {"pending", "processing", "completed", "failed"}

ErrorScenario ==
  {"file_too_large", "unsupported_format", "corrupted_file", "password_protected",
   "empty_document", "ocr_failed", "api_rate_limit", "api_timeout", "api_error",
   "sheets_auth_error", "sheets_write_error", "url_invalid"}

\* ------------------------------------------------------------ strings
IsSpace(c) == c \in {" ", "nl"}

IsTerminal(c) == c \in {".", "!", "?"}

IsCyrillic(c) == c \in {"zh", "ya", "YA"}

IsLatin(c) == c \in {"x", "a", "n", "X", "A", "N"}

IsAlpha(c) == IsCyrillic(c) \/ IsLatin(c)

RECURSIVE LStrip(_)
LStrip(s) == IF s # <<>> /\ IsSpace(Head(s)) THEN LStrip(Tail(s)) ELSE s

RECURSIVE RStrip(_)
RStrip(s) ==
  IF s # <<>> /\ IsSpace(s[Len(s)]) THEN RStrip(SubSeq(s, 1, Len(s) - 1)) ELSE s

\* str.strip()
Strip(s) == RStrip(LStrip(s))

RECURSIVE Repeat(_, _)
Repeat(s, n) == IF n <= 0 THEN <<>> ELSE s \o Repeat(s, n - 1)

RECURSIVE Join(_, _)
\* sep.join(parts)
Join(parts, sep) ==
  IF parts = <<>> THEN <<>>
  ELSE IF Len(parts) = 1 THEN parts[1]
  ELSE parts[1] \o sep \o Join(Tail(parts), sep)

\* ------------------------------------------------------------ AISummarizer._count_sentences
RECURSIVE SkipSpaces(_, _)
\* first index >= i of s that is not whitespace (Len(s)+1 when there is none)
SkipSpaces(s, i) == IF i <= Len(s) /\ IsSpace(s[i]) THEN SkipSpaces(s, i + 1) ELSE i

RECURSIVE SplitFrom(_, _, _)
\* re.split(r'(?<=[.!?])\s+', s): the pieces of s from index i on, the piece
\* under construction starting at index start
SplitFrom(s, start, i) ==
  IF i > Len(s) THEN << SubSeq(s, start, Len(s)) >>
  ELSE IF i > 1 /\ IsTerminal(s[i - 1]) /\ IsSpace(s[i])
       THEN LET j == SkipSpaces(s, i)
            IN  << SubSeq(s, start, i - 1) >> \o SplitFrom(s, j, j)
       ELSE SplitFrom(s, start, i + 1)

SentenceSplit(s) == SplitFrom(s, 1, 1)

CountSentences(text) ==
  IF text = <<>> \/ Strip(text) = <<>> THEN 0
  ELSE Len(SelectSeq(SentenceSplit(Strip(text)), LAMBDA p : Strip(p) # <<>>))

\* ------------------------------------------------------------ results (models/results.py)
\* dataclass ParseResult with its __post_init__
ParseResult(text, char_count, success, extraction_method, error_scenario, used_ocr) ==
  [text |-> text,
   char_count |-> IF success /\ char_count = 0 /\ text # <<>> THEN Len(text) ELSE char_count,
   success |-> success,
   extraction_method |-> extraction_method,
   error_scenario |-> error_scenario,
   used_ocr |-> used_ocr]

SummaryResult(summary, sentence_count, language, success, ai_model_used, tokens_used, error_scenario) ==
  [summary |-> summary,
   sentence_count |-> sentence_count,
   language |-> language,
   success |-> success,
   ai_model_used |-> ai_model_used,
   tokens_used |-> tokens_used,
   error_scenario |-> error_scenario]

\* dataclass KeywordsResult with its __post_init__
KeywordsResult(keywords, formatted, count, success, extraction_method, error_scenario) ==
  [keywords |-> keywords,
   formatted |-> formatted,
   count |-> IF success /\ count = 0 /\ keywords # <<>> THEN Len(keywords) ELSE count,
   success |-> success,
   extraction_method |-> extraction_method,
   error_scenario |-> error_scenario]

\* ------------------------------------------------------------ OpenAISummarizer
\* What one call of the external generation capability does: it raises an
\* exception, or it answers.  msg is the message of the exception: the set of
\* its pieces, as they are spelt, that _classify_error may find in it.
GenRaise(msg) == [raised |-> TRUE, content |-> <<>>, tokens |-> 0, msg |-> msg]

GenReply(content, tokens) == [raised |-> FALSE, content |-> content, tokens |-> tokens, msg |-> {}]

\* the model is "gpt-4" by default
GetAiModel == "openai_gpt4"

LangInstruction(language) == IF language = "ru" THEN "ru" ELSE "en"

\* AISummarizer._build_prompt: asks for 3 to 7 sentences
BuildPrompt(text, language) ==
  [lo |-> 3, hi |-> 7, lang |-> LangInstruction(language)]

\* the sentence count the corrective prompt demands
AdjustTargetSwapped(current_count) ==
  IF current_count < MIN_SENTENCES THEN MAX_SENTENCES ELSE MIN_SENTENCES

AdjustTarget(current_count) ==
  IF current_count < MIN_SENTENCES THEN MIN_SENTENCES ELSE MAX_SENTENCES

AdjustPrompt(text, language, current_count) ==
  [lo |-> AdjustTarget(current_count), hi |-> AdjustTarget(current_count),
   lang |-> LangInstruction(language)]

\* str.lower() of a piece of an exception message
LowerPiece(piece) ==
  CASE piece \in {"Rate limit", "Rate Limit", "RATE LIMIT"} -> "rate limit"
    [] piece \in {"Rate_Limit", "RATE_LIMIT"} -> "rate_limit"
    [] piece \in {"Timeout", "TIMEOUT"} -> "timeout"
    [] OTHER -> piece

\* str(error).lower()
LowerMessage(msg) == { LowerPiece(piece) : piece \in msg }

\* _classify_error with the test for a timeout first
ClassifyErrorTimeoutFirst(msg) ==
  IF "timeout" \in LowerMessage(msg) THEN "api_timeout"
  ELSE IF "rate limit" \in LowerMessage(msg) \/ "rate_limit" \in LowerMessage(msg)
  THEN "api_rate_limit"
  ELSE "api_error"

ClassifyError(msg) ==
  IF "rate limit" \in LowerMessage(msg) \/ "rate_limit" \in LowerMessage(msg)
  THEN "api_rate_limit"
  ELSE IF "timeout" \in LowerMessage(msg) THEN "api_timeout"
  ELSE "api_error"

SummarizeFailure(language, msg) ==
  SummaryResult(<<>>, 0, language, FALSE, GetAiModel, Nothing, ClassifyError(msg))

NeedsAdjust(sentence_count) ==
  sentence_count < MIN_SENTENCES \/ sentence_count > MAX_SENTENCES

IsShortTextInclusive(text) == Len(text) <= MIN_TEXT_FOR_SUMMARY

IsShortText(text) == Len(text) < MIN_TEXT_FOR_SUMMARY

\* OpenAISummarizer.summarize, the generation capability answering its first
\* call with o1 and its second with o2.  calls: the calls actually made, each
\* with its prompt and what the capability did.
Summarize(text, language, o1, o2) ==
  IF IsShortText(text)
  THEN [result |-> SummaryResult(text, CountSentences(text), language, TRUE, GetAiModel, Some(0), None),
        calls |-> <<>>]
  ELSE
    LET p1 == BuildPrompt(text, language)
        call1 == [prompt |-> p1, outcome |-> o1]
    IN
    IF o1.raised
    THEN [result |-> SummarizeFailure(language, o1.msg), calls |-> <<call1>>]
    ELSE
      LET summary1 == Strip(o1.content)
          count1 == CountSentences(summary1)
      IN
      IF NeedsAdjust(count1)
      THEN
        LET p2 == AdjustPrompt(text, language, count1)
            call2 == [prompt |-> p2, outcome |-> o2]
        IN
        IF o2.raised
        THEN [result |-> SummarizeFailure(language, o2.msg), calls |-> <<call1, call2>>]
        ELSE
          LET summary2 == Strip(o2.content)
          IN [result |-> SummaryResult(summary2, CountSentences(summary2), language, TRUE,
                                       GetAiModel, Some(o1.tokens + o2.tokens), None),
              calls |-> <<call1, call2>>]
      ELSE [result |-> SummaryResult(summary1, count1, language, TRUE, GetAiModel,
                                     Some(o1.tokens), None),
            calls |-> <<call1>>]

\* ------------------------------------------------------------ LanguageDetector
\* len(CYRILLIC_PATTERN.findall(text))
CountCyrillic(text) == Len(SelectSeq(text, IsCyrillic))

\* len(LATIN_PATTERN.findall(text))
CountLatin(text) == Len(SelectSeq(text, IsLatin))

IsWordChar(c) == IsAlpha(c) \/ c = "1"

RECURSIVE WordsFrom(_, _, _)
\* set(re.findall(r'\b\w+\b', text.lower())): the maximal runs of word characters
WordsFrom(s, i, cur) ==
  IF i > Len(s) THEN (IF cur = <<>> THEN {} ELSE {cur})
  ELSE IF IsWordChar(s[i]) THEN WordsFrom(s, i + 1, Append(cur, s[i]))
  ELSE (IF cur = <<>> THEN {} ELSE {cur}) \cup WordsFrom(s, i + 1, <<>>)

\* text.lower()
LowerText(text) ==
  [i \in 1..Len(text) |->
     CASE text[i] = "X" -> "x" [] text[i] = "A" -> "a" [] text[i] = "N" -> "n"
       [] text[i] = "YA" -> "ya" [] OTHER -> text[i]]

\* the marker words the model's alphabet can spell
RUSSIAN_MARKERS == { <<"ya">> }

ENGLISH_MARKERS == { <<"a">>, <<"a", "n">> }

\* LanguageDetector._detect_by_words
DetectByWords(text) ==
  LET words == WordsFrom(LowerText(text), 1, <<>>)
      russian_matches == Cardinality(words \cap RUSSIAN_MARKERS)
      english_matches == Cardinality(words \cap ENGLISH_MARKERS)
  IN  IF russian_matches > english_matches THEN "ru"
      ELSE IF english_matches > russian_matches THEN "en"
      ELSE IF CountCyrillic(text) > 0 THEN "ru"
      ELSE "en"

DetectInclusiveRatio(text) ==
  IF text = <<>> \/ Strip(text) = <<>> THEN "en"
  ELSE
    LET cyrillic_count == CountCyrillic(text)
        latin_count == CountLatin(text)
        total_letters == cyrillic_count + latin_count
    IN  IF total_letters = 0 THEN "en"
        ELSE IF 10 * cyrillic_count >= 7 * total_letters THEN "ru"
        ELSE IF 10 * cyrillic_count <= 3 * total_letters THEN "en"
        ELSE DetectByWords(text)

\* LanguageDetector.detect; the ratio tests c/(c+l) > 0.7 and < 0.3 in integers
Detect(text) ==
  IF text = <<>> \/ Strip(text) = <<>> THEN "en"
  ELSE
    LET cyrillic_count == CountCyrillic(text)
        latin_count == CountLatin(text)
        total_letters == cyrillic_count + latin_count
    IN  IF total_letters = 0 THEN "en"
        ELSE IF 10 * cyrillic_count > 7 * total_letters THEN "ru"
        ELSE IF 10 * cyrillic_count < 3 * total_letters THEN "en"
        ELSE DetectByWords(text)

\* ------------------------------------------------------------ KeywordExtractor
Min(a, b) == IF a < b THEN a ELSE b

Max(a, b) == IF a > b THEN a ELSE b

Take(s, n) == SubSeq(s, 1, Min(n, Len(s)))

LowerChar(c) ==
  CASE c = "X" -> "x" [] c = "A" -> "a" [] c = "N" -> "n" [] c = "YA" -> "ya" [] OTHER -> c

LowerNoop(s) == s

\* kw.lower()
Lower(s) == [i \in 1..Len(s) |-> LowerChar(s[i])]

RECURSIVE CollapseFrom(_, _)
\* ' '.join(kw.split()) of a string that does not start with whitespace
CollapseFrom(s, i) ==
  IF i > Len(s) THEN <<>>
  ELSE IF IsSpace(s[i])
       THEN LET j == SkipSpaces(s, i)
            IN  IF j > Len(s) THEN <<>> ELSE <<" ">> \o CollapseFrom(s, j)
       ELSE <<s[i]>> \o CollapseFrom(s, i + 1)

CollapseWhitespace(kw) == CollapseFrom(LStrip(kw), 1)

\* any(c.isalpha() for c in kw)
HasAlpha(kw) == \E i \in 1..Len(kw) : IsAlpha(kw[i])

RECURSIVE CleanFrom(_, _, _)
CleanFrom(keywords, i, seen) ==
  IF i > Len(keywords) THEN <<>>
  ELSE
    LET kw == CollapseWhitespace(keywords[i])
        kw_lower == Lower(kw)
    IN  IF Len(kw) < MIN_KEYWORD_LEN THEN CleanFrom(keywords, i + 1, seen)
        ELSE IF kw_lower \in seen THEN CleanFrom(keywords, i + 1, seen)
        ELSE IF ~HasAlpha(kw)
             THEN CleanFrom(keywords, i + 1, seen \cup {kw_lower})
        ELSE <<kw>> \o CleanFrom(keywords, i + 1, seen \cup {kw_lower})

\* KeywordExtractor._clean_keywords
CleanKeywords(keywords) == CleanFrom(keywords, 1, {})

\* KeywordExtractor.format_keywords
FormatKeywords(keywords) == Join(keywords, <<",", " ">>)

\* count = max(MIN_KEYWORDS, min(count, MAX_KEYWORDS)), None meaning MAX_KEYWORDS
ClampCount(count) ==
  Max(MIN_KEYWORDS, Min(IF IsNothing(count) THEN MAX_KEYWORDS ELSE Get(count), MAX_KEYWORDS))

\* What one run of the scoring pass (yake) does: it raises, or it returns its
\* ranked candidates, at most top of them.
ScoreRaise == [raised |-> TRUE, candidates |-> <<>>]

ScoreReturn(candidates) == [raised |-> FALSE, candidates |-> candidates]

\* KeywordExtractor._extract_with_yake on a scoring pass that returned
ExtractWithYake(scored, count) == Take(CleanKeywords(Take(scored.candidates, count * 2)), count)

TextTooShortEmptyOnly(text) == text = <<>>

TextTooShortUnstripped(text) == text = <<>> \/ Len(text) < MIN_KEYWORD_TEXT

\* not text or len(text.strip()) < 10
TextTooShort(text) == text = <<>> \/ Len(Strip(text)) < MIN_KEYWORD_TEXT

KeywordsFailure(method, scenario) == KeywordsResult(<<>>, <<>>, 0, FALSE, method, scenario)

NeedsSecondPass(keywords) == Len(keywords) < MIN_KEYWORDS

\* KeywordExtractor.extract, the scoring pass answering its first run (max
\* phrase length 2) with s1 and its second (max phrase length 3) with s2.
\* passes: the max phrase length of each run actually made; ranked: what the
\* last run made returned.
Extract(text, requested, s1, s2) ==
  LET count == ClampCount(requested)
  IN
  IF TextTooShort(text)
  THEN [result |-> KeywordsFailure("yake", "empty_document"), passes |-> <<>>,
        ranked |-> <<>>]
  ELSE IF s1.raised
  THEN [result |-> KeywordsFailure("yake", "api_error"),
        passes |-> <<DEFAULT_MAX_NGRAM_SIZE>>, ranked |-> <<>>]
  ELSE
    LET first == ExtractWithYake(s1, count)
    IN
    IF NeedsSecondPass(first)
    THEN
      IF s2.raised
      THEN [result |-> KeywordsFailure("yake", "api_error"),
            passes |-> <<DEFAULT_MAX_NGRAM_SIZE, ESCALATED_NGRAM_SIZE>>, ranked |-> <<>>]
      ELSE
        LET keywords == Take(ExtractWithYake(s2, count), MAX_KEYWORDS)
        IN [result |-> KeywordsResult(keywords, FormatKeywords(keywords), Len(keywords),
                                      TRUE, "yake", None),
            passes |-> <<DEFAULT_MAX_NGRAM_SIZE, ESCALATED_NGRAM_SIZE>>,
            ranked |-> s2.candidates]
    ELSE
      LET keywords == Take(first, MAX_KEYWORDS)
      IN [result |-> KeywordsResult(keywords, FormatKeywords(keywords), Len(keywords),
                                    TRUE, "yake", None),
          passes |-> <<DEFAULT_MAX_NGRAM_SIZE>>, ranked |-> s1.candidates]

\* ------------------------------------------------------------ parsers
\* A file on disk as the parsers see it: its declared format, the text a
\* fault-free read yields, and the fault the reading library runs into:
\*   "none", "io_error" (open() fails), "password", "corrupt".
\* detected: what chardet.detect reports for its bytes (None: nothing);
\* undecodable: the encodings in which some byte of it has no character.
File(file_type, fault, text) ==
  [file_type |-> file_type, fault |-> fault, text |-> text, detected |-> None,
   undecodable |-> {}]

\* a readable file whose bytes are not valid UTF-8; text is its latin-1
\* reading, one character per byte
EncodedFile(file_type, detected, undecodable, text) ==
  [file_type |-> file_type, fault |-> "none", text |-> text, detected |-> detected,
   undecodable |-> undecodable \cup {"utf-8"}]

FALLBACK_ENCODINGS == <<"utf-8", "cp1251", "latin-1", "cp1252">>

\* the names Python has a codec for, among those met here
KnownCodecs == {"utf-8", "UTF-8", "cp1251", "latin-1", "cp1252", "koi8-r", "utf-16"}

\* encoding.lower()
LowerName(enc) == IF enc = "UTF-8" THEN "utf-8" ELSE enc

\* the characters the bytes behind the latin-1 reading `text` are in encoding
\* enc: a letter byte is a Cyrillic letter in cp1251 and koi8-r, utf-16 takes
\* two bytes per character after its byte-order mark
Recode(text, enc) ==
  IF enc = "utf-16"
  THEN [i \in 1..(IF Len(text) >= 2 THEN (Len(text) \div 2) - 1 ELSE 0) |-> "x"]
  ELSE [i \in 1..Len(text) |->
          IF ~IsLatin(text[i]) THEN text[i]
          ELSE IF enc = "cp1251" THEN "zh"
          ELSE IF enc = "koi8-r" THEN "ya"
          ELSE IF enc = "cp1252" THEN "a"
          ELSE text[i]]

\* open(file_path, "r", encoding=enc).read(): error is "none", "decode"
\* (UnicodeDecodeError) or "lookup" (LookupError)
Read(file, enc) ==
  IF enc \notin KnownCodecs THEN [error |-> "lookup", text |-> <<>>]
  ELSE IF LowerName(enc) \in file.undecodable THEN [error |-> "decode", text |-> <<>>]
  ELSE [error |-> "none",
        text |-> IF "utf-8" \in file.undecodable THEN Recode(file.text, enc) ELSE file.text]

ParseReturn(result) == [raised |-> FALSE, result |-> Some(result)]

ParseRaise == [raised |-> TRUE, result |-> Nothing]

ParseFailure(method, scenario) == ParseResult(<<>>, 0, FALSE, method, scenario, FALSE)

ParseTextUnchecked(text, method) == ParseResult(text, Len(text), TRUE, method, None, FALSE)

\* the result of a read that decoded `text`
ParseText(text, method) ==
  IF Len(text) = 0 THEN ParseFailure(method, "empty_document")
  ELSE ParseResult(text, Len(text), TRUE, method, None, FALSE)

\* What a run of a text parser did: it raised, or it returned result; tried:
\* the encodings it opened the file with, in order; last_error: the encoding
\* whose decode error the error_message of an all-failed result quotes.
ParserRun(raised, result, tried, last_error) ==
  [raised |-> raised, result |-> result, tried |-> tried, last_error |-> last_error]

RECURSIVE TryEncodings(_, _, _, _)
\* for enc in encodings: the first one that decodes wins
TryEncodings(file, encodings, i, last_error) ==
  IF i > Len(encodings)
  THEN ParserRun(FALSE, Some(ParseFailure("plain_read", "corrupted_file")), encodings,
                 last_error)
  ELSE IF file.fault # "none"
  THEN ParserRun(FALSE, Some(ParseFailure("plain_read", "corrupted_file")),
                 SubSeq(encodings, 1, i), last_error)
  ELSE
    LET r == Read(file, encodings[i])
    IN  IF r.error = "none"
        THEN ParserRun(FALSE, Some(ParseText(r.text, "plain_read")), SubSeq(encodings, 1, i),
                       last_error)
        ELSE TryEncodings(file, encodings, i + 1, encodings[i])

EncodingsToTryDetectedLast(encoding) ==
  SelectSeq(FALLBACK_ENCODINGS, LAMBDA e : e # encoding /\ e # "utf-8")
  \o (IF encoding # None /\ LowerName(encoding) # "utf-8" THEN <<encoding>> ELSE <<>>)

\* TXTParser.parse: encodings_to_try, the detected encoding first
EncodingsToTry(encoding) ==
  (IF encoding # None /\ LowerName(encoding) # "utf-8" THEN <<encoding>> ELSE <<>>)
  \o SelectSeq(FALLBACK_ENCODINGS, LAMBDA e : e # encoding /\ e # "utf-8")

\* TXTParser.parse: the first open() is guarded against UnicodeDecodeError only
TXTParse(file) ==
  IF file.fault # "none" THEN ParserRun(TRUE, Nothing, <<"utf-8">>, None)
  ELSE
    LET first == Read(file, "utf-8")
    IN  IF first.error = "none"
        THEN ParserRun(FALSE, Some(ParseText(first.text, "plain_read")), <<"utf-8">>, None)
        ELSE LET run == TryEncodings(file, EncodingsToTry(file.detected), 1, None)
             IN  ParserRun(FALSE, run.result, <<"utf-8">> \o run.tried, run.last_error)

\* MDParser.parse: any exception of the read other than a decode error is a
\* corrupted file
MDParse(file) == TryEncodings(file, FALLBACK_ENCODINGS, 1, None)

PDFParse(file) ==
  IF file.fault = "none" THEN ParseReturn(ParseText(file.text, "pdfplumber"))
  ELSE IF file.fault = "password"
  THEN ParseReturn(ParseFailure("pdfplumber", "password_protected"))
  ELSE ParseReturn(ParseFailure("pdfplumber", "corrupted_file"))

\* DOCXParser.parse of a document of one paragraph
DOCXParse(file) ==
  IF file.fault = "none" THEN ParseReturn(ParseText(Strip(file.text), "python_docx"))
  ELSE ParseReturn(ParseFailure("python_docx", "corrupted_file"))

\* ------------------------------------------------------------ ParserFactory
\* A file name or an extension is the sequence of its characters.
\* the characters of a FileType value, which are those of the extension its
\* parser compares with
Letters(file_type) ==
  CASE file_type = "pdf" -> <<"p", "d", "f">>
    [] file_type = "docx" -> <<"d", "o", "c", "x">>
    [] file_type = "txt" -> <<"t", "x", "t">>
    [] file_type = "md" -> <<"m", "d">>

\* str.lower() of one character of a file name
LowerLetter(c) ==
  CASE c = "P" -> "p" [] c = "D" -> "d" [] c = "F" -> "f" [] c = "O" -> "o"
    [] c = "C" -> "c" [] c = "X" -> "x" [] c = "T" -> "t" [] c = "M" -> "m"
    [] c = "E" -> "e" [] OTHER -> c

LowerStr(s) == [i \in 1..Len(s) |-> LowerLetter(s[i])]

RECURSIVE LStripDots(_)
\* s.lstrip(".")
LStripDots(s) == IF s # <<>> /\ Head(s) = "." THEN LStripDots(Tail(s)) ELSE s

NormalizeExtensionCaseKept(extension) == LStripDots(extension)

\* DocumentParser._normalize_extension
NormalizeExtension(extension) == LStripDots(LowerStr(extension))

\* PDFParser.supports, DOCXParser.supports, TXTParser.supports, MDParser.supports
Supports(parser, file_extension) == NormalizeExtension(file_extension) = Letters(parser)

\* p.rfind(c), counted from 1, 0 when c is not in p
LastIndexOf(p, c) ==
  IF \E i \in 1..Len(p) : p[i] = c
  THEN CHOOSE i \in 1..Len(p) : p[i] = c /\ \A j \in (i + 1)..Len(p) : p[j] # c
  ELSE 0

\* os.path.splitext(p)[1]: from the last dot of the last path component, unless
\* only dots precede it there
SplitExt(p) ==
  LET sepIndex == LastIndexOf(p, "/")
      dotIndex == LastIndexOf(p, ".")
  IN  IF dotIndex > sepIndex /\ \E k \in (sepIndex + 1)..(dotIndex - 1) : p[k] # "."
      THEN SubSeq(p, dotIndex, Len(p))
      ELSE <<>>

\* ParserFactory._get_extension
GetExtension(file_path) == LStripDots(LowerStr(SplitExt(file_path)))

\* ParserFactory._parsers, each parser under the name of its file type
RegisteredParsers == <<"pdf", "docx", "txt", "md">>

RECURSIVE FirstSupporting(_, _)
\* the for loop of get_parser, from the i-th registered parser on
FirstSupporting(extension, i) ==
  IF i > Len(RegisteredParsers) THEN None
  ELSE IF Supports(RegisteredParsers[i], extension) THEN RegisteredParsers[i]
  ELSE FirstSupporting(extension, i + 1)

\* ParserFactory.get_parser
GetParser(file_path) == FirstSupporting(GetExtension(file_path), 1)

\* ParserFactory.get_parser_by_type
GetParserByType(file_type) == GetParser(<<"f", "i", "l", "e", ".">> \o Letters(file_type))

\* parser.parse(file_path) of the parser registered for file_type
ParseWith(parser, file) ==
  CASE parser = "txt" -> TXTParse(file)
    [] parser = "md" -> MDParse(file)
    [] parser = "pdf" -> PDFParse(file)
    [] OTHER -> DOCXParse(file)

\* ------------------------------------------------------------ OCREngine
\* what extract_text returns for one page image
OCRResult(text, success) == [text |-> text, success |-> success]

\* A scanned PDF as process_pdf_pages sees it: the OCRResult of each page it
\* renders to, and the fault met on the way: "none", "no_pdf2image" (the
\* import fails), or an exception raised while the pages are rendered, saved
\* and read, told by what its message mentions: "password", "encrypted",
\* "password_poppler" (both words, in capitals), "poppler", "other" (none).
Scan(fault, pages) == [fault |-> fault, pages |-> pages]

OcrFailure(scenario) == ParseResult(<<>>, 0, FALSE, "tesseract_ocr", scenario, TRUE)

\* process_pdf_pages answering EMPTY_DOCUMENT when no page gave text
ProcessPdfPagesEmptyWhenUnread(scan) ==
  IF scan.fault = "no_pdf2image" THEN OcrFailure("ocr_failed")
  ELSE IF scan.fault \in {"password", "encrypted", "password_poppler"}
  THEN OcrFailure("password_protected")
  ELSE IF scan.fault \in {"poppler", "other"} THEN OcrFailure("ocr_failed")
  ELSE IF scan.pages = <<>> THEN OcrFailure("empty_document")
  ELSE
    LET recognized == SelectSeq(scan.pages, LAMBDA r : r.success /\ r.text # <<>>)
        text_parts == [i \in 1..Len(recognized) |-> recognized[i].text]
        full_text == Join(text_parts, <<"nl", "nl">>)
    IN  IF Len(full_text) = 0 THEN OcrFailure("empty_document")
        ELSE ParseResult(full_text, Len(full_text), TRUE, "tesseract_ocr", None, TRUE)

\* OCREngine.process_pdf_pages
ProcessPdfPages(scan) ==
  IF scan.fault = "no_pdf2image" THEN OcrFailure("ocr_failed")
  ELSE IF scan.fault \in {"password", "encrypted", "password_poppler"}
  THEN OcrFailure("password_protected")
  ELSE IF scan.fault \in {"poppler", "other"} THEN OcrFailure("ocr_failed")
  ELSE IF scan.pages = <<>> THEN OcrFailure("empty_document")
  ELSE
    LET recognized == SelectSeq(scan.pages, LAMBDA r : r.success /\ r.text # <<>>)
        text_parts == [i \in 1..Len(recognized) |-> recognized[i].text]
        full_text == Join(text_parts, <<"nl", "nl">>)
    IN  IF Len(full_text) = 0 THEN OcrFailure("ocr_failed")
        ELSE ParseResult(full_text, Len(full_text), TRUE, "tesseract_ocr", None, TRUE)

\* ------------------------------------------------------------ OCREngine, two calls at once
\* the process_pdf_pages calls running in one working directory
Callers == {1, 2}

\* pdf2image.convert_from_path: the page images of the document of call c,
\* each told by its document and its page
ConvertFromPath(c, pages) == [k \in 1..pages |-> [doc |-> c, page |-> k - 1]]

\* the text tesseract reads from a page image: the mark of the document,
\* then the page
PageText(image) == << IF image.doc = 1 THEN "a" ELSE "b", ToString(image.page) >>

\* temp_path = f"_temp_page_{i}.png", relative to the working directory
TempPath(i) == "_temp_page_" \o ToString(i) \o ".png"

TempPaths == { TempPath(i) : i \in 0..(MaxPages - 1) }

\* OCREngine.extract_text on the files of the working directory: Image.open
\* raises on a missing file, which _extract_with_tesseract turns into a
\* failed OCRResult
ExtractText(fs, image_path) ==
  IF IsNothing(fs[image_path]) THEN OCRResult(<<>>, FALSE)
  ELSE OCRResult(PageText(Get(fs[image_path])), TRUE)

\* process_pdf_pages after the page loop
FinishPdfPages(text_parts) ==
  LET full_text == Join(text_parts, <<"nl", "nl">>)
  IN  IF Len(full_text) = 0 THEN OcrFailure("ocr_failed")
      ELSE ParseResult(full_text, Len(full_text), TRUE, "tesseract_ocr", None, TRUE)

\* the end of one round of the page loop: the next page, or the return
AfterPage(call) ==
  IF call.i + 1 < Len(call.images)
  THEN [call EXCEPT !.i = call.i + 1, !.pc = "save"]
  ELSE [call EXCEPT !.pc = "done", !.out = Some(FinishPdfPages(call.text_parts))]

\* ------------------------------------------------------------ audit logger
LogEvent(event_type, status, count, error_scenario) ==
  [event_type |-> event_type, status |-> status, count |-> count,
   error_scenario |-> error_scenario]

LogUpload(metadata) == LogEvent("file_upload", None, Some(metadata.file_size), None)

LogExtraction(status, char_count) == LogEvent("text_extraction", status, Some(char_count), None)

LogApiCall(status, tokens_used) == LogEvent("api_call", status, tokens_used, None)

LogKeywords(keyword_count, status) == LogEvent("keyword_extraction", status, Some(keyword_count), None)

LogError(error_type, error_scenario) == LogEvent("error", error_type, Nothing, error_scenario)

\* ------------------------------------------------------------ ProcessingLogger
\* ProcessingLogger._setup_logger with log_file: the handlers of
\* logging.getLogger("processing_logger") afterwards
SetupLogger(handlers, log_file) == << log_file >>

\* ProcessingLogger._write_log: self.logger.info(json_str) passes the record
\* to every handler of that logger, each appending it to its file
WriteLog(handlers, files, record) ==
  [f \in DOMAIN files |->
     IF \E h \in 1..Len(handlers) : handlers[h] = f THEN Append(files[f], record) ELSE files[f]]

\* ------------------------------------------------------------ DocumentProcessor helpers
\* DocumentProcessor._parse_document: the result, and what it logs
ParseDocument(file) ==
  LET parser == GetParserByType(file.file_type)
  IN  IF parser = None
      THEN [result |-> ParseFailure("plain_read", "unsupported_format"), logged |-> <<>>]
      ELSE
        LET r == ParseWith(parser, file)
        IN  IF r.raised
            THEN [result |-> ParseFailure("plain_read", "corrupted_file"),
                  logged |-> << LogError("ParseError", "corrupted_file") >>]
            ELSE [result |-> Get(r.result), logged |-> <<>>]

ProcessingResult(metadata, parse_result, summary_result, keywords_result, status, error_scenario) ==
  [metadata |-> metadata,
   parse_result |-> parse_result,
   summary_result |-> summary_result,
   keywords_result |-> keywords_result,
   status |-> status,
   error_scenario |-> error_scenario]

CreateFailedResultNoScenario(metadata, parse_result, summary_result, keywords_result, error_scenario) ==
  ProcessingResult(
    metadata,
    IF IsNothing(parse_result) THEN ParseFailure("plain_read", None) ELSE Get(parse_result),
    IF IsNothing(summary_result)
    THEN SummaryResult(<<>>, 0, IF metadata.language = None THEN "en" ELSE metadata.language,
                       FALSE, "openai_gpt4", Nothing, None)
    ELSE Get(summary_result),
    IF IsNothing(keywords_result) THEN KeywordsFailure("yake", None)
    ELSE Get(keywords_result),
    "failed",
    error_scenario)

\* DocumentProcessor._create_failed_result; the results are Optionals
CreateFailedResult(metadata, parse_result, summary_result, keywords_result, error_scenario) ==
  ProcessingResult(
    metadata,
    IF IsNothing(parse_result) THEN ParseFailure("plain_read", error_scenario)
    ELSE Get(parse_result),
    IF IsNothing(summary_result)
    THEN SummaryResult(<<>>, 0, IF metadata.language = None THEN "en" ELSE metadata.language,
                       FALSE, "openai_gpt4", Nothing, error_scenario)
    ELSE Get(summary_result),
    IF IsNothing(keywords_result) THEN KeywordsFailure("yake", error_scenario)
    ELSE Get(keywords_result),
    "failed",
    error_scenario)

\* ------------------------------------------------------------ RetryConfig, RetryHandler
\* dataclass RetryConfig
RetryConfig(max_retries, jitter) ==
  [max_retries |-> max_retries, base_delay |-> BASE_DELAY_MS, max_delay |-> MAX_DELAY_MS,
   exponential_base |-> EXPONENTIAL_BASE, jitter |-> jitter]

\* log2 of an exponential base, for the bases 1.0, 2.0 and 4.0
Log2(b) == CASE b = 1 -> 0 [] b = 2 -> 1 [] b = 4 -> 2

\* self.exponential_base ** attempt raises OverflowError: the power of a float
\* is a float, and the floats end below 2.0 ** FLOAT_MAX_EXP
PowOverflows(b, e) == e * Log2(b) >= FLOAT_MAX_EXP

RECURSIVE ScaledUpTo(_, _, _, _)
\* min(x * (b ** e), cap) for b >= 1, every intermediate value at most b * cap
ScaledUpTo(x, b, e, cap) ==
  IF e <= 0 \/ b = 1 \/ x >= cap THEN Min(x, cap) ELSE ScaledUpTo(x * b, b, e - 1, cap)

\* the value RetryConfig.get_delay returns when it returns; jitter_pct is
\* 100 * (0.5 + random.random())
GetDelay(cfg, attempt, jitter_pct) ==
  LET delay == ScaledUpTo(cfg.base_delay, cfg.exponential_base, attempt, cfg.max_delay)
  IN  IF cfg.jitter THEN (delay * jitter_pct) \div 100 ELSE delay

CallReturn(value) == [raised |-> FALSE, value |-> Some(value)]

CallRaise(error) == [raised |-> TRUE, error |-> error, value |-> Nothing]

\* RetryConfig.get_delay called: what it returns, or the error it raises
GetDelayCall(cfg, attempt, jitter_pct) ==
  IF PowOverflows(cfg.exponential_base, attempt) THEN CallRaise("OverflowError")
  ELSE CallReturn(GetDelay(cfg, attempt, jitter_pct))

\* for attempt in range(max_retries + 1)
LoopAttemptsShort(max_retries) == max_retries

LoopAttempts(max_retries) == max_retries + 1

\* the test of the except branch always true: a sleep after the last failure too
ShouldRetryAlways(attempt, max_retries) == TRUE

\* if attempt < self.config.max_retries
ShouldRetry(attempt, max_retries) == attempt < max_retries

\* ------------------------------------------------------------ validators
ValidationResult(is_valid, error_scenario) ==
  [is_valid |-> is_valid, error_scenario |-> error_scenario]

\* _extract_extension: None (here the empty sequence) without a dot or
\* with nothing behind the last one
ExtractExtension(file_name) ==
  LET dot == LastIndexOf(file_name, ".")
  IN  IF dot = 0 THEN <<>> ELSE LowerStr(SubSeq(file_name, dot + 1, Len(file_name)))

\* FileType.from_extension, None when no member has the value
FromExtension(extension) ==
  LET ext == LStripDots(LowerStr(extension))
  IN  IF \E t \in FileType : Letters(t) = ext
      THEN CHOOSE t \in FileType : Letters(t) = ext
      ELSE None

validate_file_format(file_name) ==
  IF file_name = <<>> THEN ValidationResult(FALSE, "unsupported_format")
  ELSE IF ExtractExtension(file_name) = <<>> THEN ValidationResult(FALSE, "unsupported_format")
  ELSE IF FromExtension(ExtractExtension(file_name)) = None
       THEN ValidationResult(FALSE, "unsupported_format")
  ELSE ValidationResult(TRUE, None)

\* validate_file_size refusing a file of exactly the largest size
validate_file_size_exclusive(file_size) ==
  IF file_size < 0 THEN ValidationResult(FALSE, "file_too_large")
  ELSE IF file_size >= MAX_FILE_SIZE_BYTES THEN ValidationResult(FALSE, "file_too_large")
  ELSE ValidationResult(TRUE, None)

validate_file_size(file_size) ==
  IF file_size < 0 THEN ValidationResult(FALSE, "file_too_large")
  ELSE IF file_size > MAX_FILE_SIZE_BYTES THEN ValidationResult(FALSE, "file_too_large")
  ELSE ValidationResult(TRUE, None)

validate_file(file_name, file_size) ==
  IF ~validate_file_format(file_name).is_valid THEN validate_file_format(file_name)
  ELSE IF ~validate_file_size(file_size).is_valid THEN validate_file_size(file_size)
  ELSE ValidationResult(TRUE, None)

\* ------------------------------------------------------------ NotificationService
\* A message to the user: the fixed string or template it is made of and,
\* when the text of an exception is put into it, that text.
Message(template, exception_text) == [template |-> template, exception_text |-> exception_text]

\* NotificationService.get_error_message
GetErrorMessage(error_scenario) ==
  CASE error_scenario = "file_too_large" -> Message("ERROR_FILE_TOO_LARGE", None)
    [] error_scenario = "unsupported_format" -> Message("ERROR_UNSUPPORTED_FORMAT", None)
    [] error_scenario = "corrupted_file" -> Message("ERROR_CORRUPTED", None)
    [] error_scenario = "password_protected" -> Message("ERROR_PASSWORD", None)
    [] error_scenario = "empty_document" -> Message("ERROR_EMPTY", None)
    [] error_scenario = "ocr_failed" -> Message("ERROR_OCR", None)
    [] error_scenario \in {"api_rate_limit", "api_timeout", "api_error"} -> Message("ERROR_API", None)
    [] error_scenario \in {"sheets_auth_error", "sheets_write_error"} -> Message("ERROR_STORAGE", None)
    [] error_scenario = "url_invalid" -> Message("ERROR_URL", None)
    [] OTHER -> Message("unknown_error", None)

\* NotificationService.get_error_message_from_validation of a ValidationResult
\* (validate_file gives every invalid one a scenario)
GetErrorMessageFromValidation(validation) ==
  IF validation.error_scenario # None THEN GetErrorMessage(validation.error_scenario)
  ELSE Message("validation_error", None)

\* DocumentProcessor.get_notification_message
GetNotificationMessage(status, error_scenario) ==
  IF status = "completed" THEN Message("PROCESSING_COMPLETE", None)
  ELSE IF error_scenario # None THEN GetErrorMessage(error_scenario)
  ELSE Message("unknown_error", None)

\* ------------------------------------------------------------ TelegramKnowledgeBot
\* An update with a document: has_message (effective_chat and message are
\* there), document (None, or its file_name and file_size, each None or a
\* value), from_user (None or the user's id), fetched (get_file and
\* download_to_drive went well, or raised a network error), processed (the
\* status and error_scenario of what process_document returns).
Update(has_message, document, from_user, fetched, processed) ==
  [has_message |-> has_message, document |-> document, from_user |-> from_user,
   fetched |-> fetched, processed |-> processed]

Exception(type, text) == [type |-> type, text |-> text]

\* TelegramBotHandler.extract_metadata of a file_info that passed validate_file
ExtractMetadata(file_info, user_info) ==
  IF file_info.file_name = <<>> THEN CallRaise(Exception("ValueError", "file_name is required"))
  ELSE IF file_info.file_size < 0
       THEN CallRaise(Exception("ValueError", "file_size must be a non-negative integer"))
  ELSE IF ExtractExtension(file_info.file_name) = <<>>
          \/ FromExtension(ExtractExtension(file_info.file_name)) = None
       THEN CallRaise(Exception("ValueError", "Unsupported file format"))
  ELSE IF user_info.id = 0
       THEN CallRaise(Exception("ValueError", "user id is required and must be an integer"))
  ELSE IF user_info.id < 0
       THEN CallRaise(Exception("ValueError", "uploader_id must be a positive integer"))
  ELSE CallReturn([file_type |-> FromExtension(ExtractExtension(file_info.file_name)),
                   file_size |-> file_info.file_size, uploader_id |-> user_info.id])

Handled(sent, logged) == [sent |-> sent, logged |-> logged]

\* the message of the `except ValueError` branch of handle_document
ValueErrorReply(e) == Message("processing_error_with_text", e.text)

\* TelegramKnowledgeBot.handle_document: the messages it sends and the errors
\* it hands to the audit logger
HandleDocument(update) ==
  IF ~update.has_message THEN Handled(<<>>, <<>>)
  ELSE IF IsNothing(update.document) THEN Handled(<< Message("INSTRUCTIONS", None) >>, <<>>)
  ELSE
    LET document == Get(update.document)
        file_info == [file_name |-> IF IsNothing(document.file_name)
                                    THEN <<"u", "n", "k", "n", "o", "w", "n">>
                                    ELSE Get(document.file_name),
                      file_size |-> IF IsNothing(document.file_size) THEN 0
                                    ELSE Get(document.file_size)]
        validation == validate_file(file_info.file_name, file_info.file_size)
        user_info == [id |-> IF IsNothing(update.from_user) THEN 0 ELSE Get(update.from_user)]
        metadata == ExtractMetadata(file_info, user_info)
        started == Message("PROCESSING_STARTED", None)
    IN  IF ~validation.is_valid
        THEN Handled(<< GetErrorMessageFromValidation(validation) >>, <<>>)
        ELSE IF metadata.raised
        THEN Handled(<< started, ValueErrorReply(metadata.error) >>,
                     << [error_type |-> "MetadataError", message |-> metadata.error.text] >>)
        ELSE IF update.fetched.raised
        THEN Handled(<< started, Message("processing_error", None) >>,
                     << [error_type |-> "ProcessingError", message |-> update.fetched.error.text] >>)
        ELSE Handled(<< started, GetNotificationMessage(update.processed.status,
                                                         update.processed.error_scenario) >>,
                     <<>>)

\* ------------------------------------------------------------ DocumentProcessor.download_from_url
\* what the server does with the request: get is the outcome of requests.get
\* and raise_for_status ("ok", "timeout" or "error"), file_name the result of
\* _extract_filename_from_response (Nothing for None), chunks the number of
\* body chunks, and fault_at > 0 makes iter_content raise fault_kind when
\* asked for chunk number fault_at
Response(get, file_name, chunks, fault_at, fault_kind) ==
  [get |-> get, file_name |-> file_name, chunks |-> chunks,
   fault_at |-> fault_at, fault_kind |-> fault_kind]

\* the file of tempfile.NamedTemporaryFile(delete=False, suffix=suffix) with
\* the chunks written to it so far
TempFile(suffix, written) == [name |-> <<"t", "m", "p">> \o suffix, written |-> written]

\* the returned triple, the temporary files of the call still on disk when it
\* returns, and the records given to the logger
Downloaded(path, file_name, error, disk, logged) ==
  [path |-> path, file_name |-> file_name, error |-> error, disk |-> disk, logged |-> logged]

\* the two except branches of download_from_url
DownloadFailed(disk) ==
  Downloaded(Nothing, Nothing, "url_invalid", disk,
             << LogError("URLDownloadError", "url_invalid") >>)

\* DocumentProcessor.download_from_url; url_valid is validate_url(url).is_valid,
\* whose every failure carries ErrorScenario.URL_INVALID
DownloadFromUrl(url_valid, response) ==
  IF ~url_valid
  THEN Downloaded(Nothing, Nothing, "url_invalid", {}, <<>>)
  ELSE IF response.get # "ok"
  THEN DownloadFailed({})
  ELSE IF IsNothing(response.file_name)
  THEN Downloaded(Nothing, Nothing, "url_invalid", {}, <<>>)
  ELSE IF GetParser(Get(response.file_name)) = None
  THEN Downloaded(Nothing, Nothing, "unsupported_format", {}, <<>>)
  ELSE IF response.fault_at \in 1..(response.chunks + 1)
  THEN DownloadFailed({ TempFile(SplitExt(Get(response.file_name)), response.fault_at - 1) })
  ELSE Downloaded(Some(TempFile(SplitExt(Get(response.file_name)), response.chunks).name),
                  response.file_name, None,
                  { TempFile(SplitExt(Get(response.file_name)), response.chunks) }, <<>>)

\* ------------------------------------------------------------ GoogleSheetsStorage
\* GoogleSheetsRow.has_required_fields with the test of uploader_username left out
HasRequiredFieldsIdOnly(row) ==
  /\ row.timestamp # ""
  /\ row.uploader_id # ""
  /\ row.file_name # ""
  /\ row.summary # <<>>
  /\ row.keywords # <<>>

\* GoogleSheetsRow.has_required_fields: the truth of the strings
HasRequiredFields(row) ==
  /\ row.timestamp # ""
  /\ (row.uploader_id # "" \/ row.uploader_username # "")
  /\ row.file_name # ""
  /\ row.summary # <<>>
  /\ row.keywords # <<>>

GoogleSheetsStorageError(message, error_scenario) ==
  [type |-> "GoogleSheetsStorageError", text |-> message, error_scenario |-> error_scenario]

\* GoogleSheetsStorage._result_to_row: isoformat() of the timestamp, str() of
\* the uploader id, "" for an absent username
ResultToRow(result) ==
  [timestamp |-> "T" \o ToString(result.metadata.timestamp),
   uploader_id |-> ToString(result.metadata.uploader_id),
   uploader_username |-> IF result.metadata.uploader_username = None THEN ""
                         ELSE result.metadata.uploader_username,
   file_name |-> result.metadata.file_name,
   summary |-> result.summary_result.summary,
   keywords |-> result.keywords_result.formatted,
   status |-> result.status]

\* what a save leaves: what the call returned or raised, the rows of the
\* worksheet, the append_row calls made
Saved(out, rows, appends) == [out |-> out, rows |-> rows, appends |-> appends]

RECURSIVE WriteAttempts(_, _, _, _, _, _)
\* retry_handler.execute_with_retry(write_operation) from loop iteration
\* `attempt` on, every error being one of retryable_errors.  faults[k] is what
\* goes wrong in call k of write_operation: "append" (append_row raises and
\* adds nothing) or "read" (append_row has added the row and get_all_values
\* raises); a call past the end of faults goes well and returns the RowInfo
\* with the row count.
WriteAttempts(rows, row, faults, attempt, max_retries, appends) ==
  IF attempt + 1 > Len(faults)
  THEN Saved(CallReturn([row_number |-> Len(rows) + 1, success |-> TRUE]),
             Append(rows, row), appends + 1)
  ELSE IF ShouldRetry(attempt, max_retries)
  THEN WriteAttempts(IF faults[attempt + 1] = "append" THEN rows ELSE Append(rows, row),
                     row, faults, attempt + 1, max_retries, appends + 1)
  ELSE Saved(CallRaise(GoogleSheetsStorageError("Failed to write to Google Sheets",
                                                "sheets_write_error")),
             IF faults[attempt + 1] = "append" THEN rows ELSE Append(rows, row),
             appends + 1)

\* GoogleSheetsStorage._retry_write on an initialised worksheet
RetryWrite(storage, row, faults) ==
  WriteAttempts(storage.rows, row, faults, 0, storage.retry_config.max_retries, 0)

\* GoogleSheetsStorage.save_row; auth_ok: whether authenticate, when
\* _ensure_authenticated calls it, goes well
SaveRow(storage, row, auth_ok, faults) ==
  IF ~storage.authenticated /\ ~auth_ok
  THEN Saved(CallRaise(GoogleSheetsStorageError("Authentication failed", "sheets_auth_error")),
             storage.rows, 0)
  ELSE IF ~HasRequiredFields(row)
  THEN Saved(CallRaise(GoogleSheetsStorageError("Row missing required fields",
                                                "sheets_write_error")),
             storage.rows, 0)
  ELSE RetryWrite(storage, row, faults)

\* GoogleSheetsStorage.save_result
SaveResult(storage, result, auth_ok, faults) ==
  IF ~storage.authenticated /\ ~auth_ok
  THEN Saved(CallRaise(GoogleSheetsStorageError("Authentication failed", "sheets_auth_error")),
             storage.rows, 0)
  ELSE IF ~HasRequiredFields(ResultToRow(result))
  THEN Saved(CallRaise(GoogleSheetsStorageError("Row missing required fields",
                                                "sheets_write_error")),
             storage.rows, 0)
  ELSE RetryWrite(storage, ResultToRow(result), faults)

\* ------------------------------------------------------------ inputs
\* a sentence of n characters, its letters all c
Sentence(c, n) == Repeat(<<c>>, n - 1) \o <<".">>

\* k two-character sentences separated by one space
Sents(k) == Join([i \in 1..k |-> <<"x", ".">>], <<" ">>)

T5 == Sentence("x", 5)

T9pad == <<" ">> \o Sentence("x", 9) \o <<" ">>

T10 == <<"a", " ">> \o Sentence("zh", 4) \o <<" ">> \o Sentence("x", 3)

T99 == Sentence("x", 49) \o <<" ">> \o Sentence("x", 49)

T100 == Sentence("x", 49) \o <<" ">> \o Sentence("x", 50)

T101ru == Sentence("zh", 50) \o <<" ">> \o Sentence("zh", 50)

\* the texts the operations are called with
Texts == {<<>>, T5, T9pad, T10, T99, T100, T101ru}

Languages == {"ru", "en"}

\* the updates handle_document is called with
Updates ==
  { Update(FALSE, Nothing, Nothing, CallReturn("file"), [status |-> "completed", error_scenario |-> None]),
    Update(TRUE, Nothing, Some(7), CallReturn("file"), [status |-> "completed", error_scenario |-> None]) }
  \cup { Update(TRUE, Some([file_name |-> n, file_size |-> z]), u, f, p) :
           n \in { Nothing, Some(<<"f">>), Some(<<"f", ".", "e", "x", "e">>),
                   Some(<<"f", ".", "p", "d", "f">>), Some(<<"f", ".", "T", "X", "T">>) },
           z \in { Nothing, Some(1000), Some(MAX_FILE_SIZE_BYTES), Some(MAX_FILE_SIZE_BYTES + 1) },
           u \in { Nothing, Some(7) },
           f \in { CallReturn("file"), CallRaise(Exception("NetworkError", "Timed out")) },
           p \in { [status |-> "completed", error_scenario |-> None],
                   [status |-> "failed", error_scenario |-> None] }
                 \cup { [status |-> "failed", error_scenario |-> e] :
                          e \in {"corrupted_file", "password_protected", "empty_document",
                                 "api_rate_limit", "api_timeout", "api_error"} } }

\* the rows save_row is given: each required field empty or not
Rows ==
  { [timestamp |-> t, uploader_id |-> i, uploader_username |-> u, file_name |-> f,
     summary |-> m, keywords |-> k, status |-> "completed"] :
      t \in {"", "T1"}, i \in {"", "7"}, u \in {"", "user"}, f \in {"", "a.txt"},
      m \in {<<>>, Sentence("x", 3)}, k \in {<<>>, <<"x">>} }

\* the storages: authenticated or not yet, the worksheet empty or with a row
Storages ==
  { [authenticated |-> a, retry_config |-> RetryConfig(m, TRUE), rows |-> r] :
      a \in BOOLEAN, m \in 0..MaxMaxRetries,
      r \in { <<>>, << [timestamp |-> "T0", uploader_id |-> "7", uploader_username |-> "",
                        file_name |-> "b.md", summary |-> <<"x">>, keywords |-> <<"x">>,
                        status |-> "completed"] >> } }

\* what goes wrong in the first calls of write_operation: at most one fault
\* for each iteration of the retry loop
WriteFaults(max_retries) ==
  UNION { [1..n -> {"append", "read"}] : n \in 0..LoopAttempts(max_retries) }

\* the configurations and attempt indexes get_delay is called with
DelayConfigs ==
  { [max_retries |-> DEFAULT_MAX_RETRIES, base_delay |-> b, max_delay |-> m,
     exponential_base |-> e, jitter |-> j] :
      b \in {100, BASE_DELAY_MS, 2000}, m \in {5000, MAX_DELAY_MS, 60000},
      e \in {1, EXPONENTIAL_BASE, 4}, j \in BOOLEAN }

DelayAttempts == 0..6 \cup {20, 511, 512, 1023, 1024, 1025}

\* the texts detect is called with: c Cyrillic and l Latin letters, and words
Mixed(c, l, words) == Repeat(<<"zh">>, c) \o <<" ">> \o Repeat(<<"x">>, l) \o words

DetectTexts ==
  Texts
  \cup { <<" ", "nl">>, <<"1", ".", " ", "1">> }
  \cup { Mixed(c, l, w) : c \in 0..8, l \in {0, 3, 7},
                          w \in { <<>>, <<" ", "1">>, <<" ", "1", "a">> } }
  \cup { Mixed(6, 2, <<" ", "a">>), Mixed(7, 2, <<" ", "a">>), Mixed(6, 1, <<" ", "a", "n">>),
         Mixed(6, 2, <<" ", "A">>), Mixed(6, 1, <<" ", "A", "n">>),
         Mixed(2, 7, <<" ", "ya">>), Mixed(2, 7, <<" ", "YA">>), Mixed(1, 7, <<" ", "ya">>),
         Mixed(2, 7, <<".", "ya", ".">>), Mixed(2, 6, <<" ", "ya", "x">>),
         Mixed(0, 0, <<"ya", " ", "a">>), Mixed(0, 0, <<"A", "nl", "YA">>),
         Mixed(0, 0, <<"ya", " ", "ya", " ", "ya", " ", "a", " ", "a", "n">>),
         Mixed(0, 0, <<"ya", " ", "a", " ", "a">>),
         Mixed(1, 0, <<"ya", " ", "a", "n", "a">>), Mixed(2, 2, <<" ", "a", "1">>),
         Mixed(2, 1, <<" ", "a">>), Mixed(1, 1, <<" ", "x", "a">>) }

\* what the generation capability may do on one call
GenOutcomes ==
  { GenReply(c, 5) :
      c \in {Sents(0), Sents(1), Sents(3), Sents(7), Sents(8),
             <<" ">> \o Sents(3) \o <<" ">>,
             <<"x", ".", "x", ".", " ", "x", ".">>,
             <<"x", "!", " ", " ", "x", "?", " ", "x">>} }
  \cup { GenReply(Sents(7), 0) }
  \cup { GenRaise(m) : m \in {{}, {"rate limit"}, {"timeout"}, {"rate_limit", "timeout"},
                              {"Rate Limit"}, {"TIMEOUT", "RATE_LIMIT"}, {"timed out"}} }

\* the candidates the scoring pass ranks, best first
Candidates ==
  << <<"x", "x">>, <<"x", "a">>, <<"X", "a">>, <<"a", "x">>, <<"x", " ", " ", "a">>,
     <<"x">>, <<"zh", "zh">>, <<"x", " ", "a">>, <<"1", "1">>, <<"a", "a">>,
     <<"ya", "zh">>, <<"zh", "x">>, <<"x", "zh">>, <<"a", "zh">>, <<"zh", "a">>,
     <<"ya", "x">>, <<"x", "ya">> >>

\* what one run of the scoring pass may do: raise, or return a window of Candidates
ScoreOutcomes ==
  { ScoreRaise }
  \cup { ScoreReturn(SubSeq(Candidates, 1, j)) : j \in 0..Len(Candidates) }
  \cup { ScoreReturn(SubSeq(Candidates, i, Len(Candidates))) : i \in {3, 6, 9, 12, 15} }

\* the counts extract is asked for
RequestedCounts == {Nothing, Some(0), Some(7), Some(12)}

\* the two DocumentProcessor instances and the log file each is configured with
Instances == {1, 2}

LogFile(i) == IF i = 1 THEN "a.log" ELSE "b.log"

\* the documents the two instances process, and what the capabilities answer
Jobs ==
  { [file |-> File("txt", "io_error", <<>>), o |-> GenReply(Sents(3), 5), s |-> ScoreReturn(Candidates)],
    [file |-> File("md", "none", <<>>), o |-> GenReply(Sents(3), 5), s |-> ScoreReturn(Candidates)],
    [file |-> File("txt", "none", T100), o |-> GenReply(Sents(3), 5), s |-> ScoreReturn(Candidates)],
    [file |-> File("txt", "none", T101ru), o |-> GenReply(Sents(3), 5), s |-> ScoreRaise] }

\* the documents process_document is given
Files ==
  { File("txt", "none", t) : t \in {<<>>, T5, T10, T100, T101ru} }
  \cup { File(ft, "none", t) : ft \in {"md", "pdf", "docx"}, t \in {<<>>, T9pad, T99} }
  \cup { File(ft, "io_error", <<>>) : ft \in {"txt", "md"} }
  \cup { File("pdf", "password", <<>>), File("pdf", "corrupt", <<>>),
         File("docx", "corrupt", <<>>) }
  \cup { EncodedFile("txt", "koi8-r", {}, T5),
         EncodedFile("md", None, {"cp1251"}, T5) }

\* the files the parsers are called on directly: those, and files that are not
\* valid UTF-8 (every byte has a latin-1 character; a file chardet takes for
\* utf-16 is too short to hold more than a byte-order mark)
ParserFiles ==
  Files
  \cup { EncodedFile(ft, d, u \cup {"utf-16"}, T5) :
           ft \in {"txt", "md"}, d \in {None, "UTF-8", "cp1251", "koi8-r", "euc-tw"},
           u \in {{}, {"cp1251"}, {"koi8-r"}, {"cp1251", "cp1252"}} }
  \cup { EncodedFile(ft, "utf-16", u, <<"x", "x">>) :
           ft \in {"txt", "md"}, u \in {{}, {"cp1251"}} }

\* the scanned documents process_pdf_pages is called on
Scans ==
  { Scan(f, pages) : f \in {"none", "no_pdf2image", "password", "encrypted", "password_poppler",
                              "poppler", "other"},
                      pages \in { <<>>, << OCRResult(T5, TRUE) >> } }
  \cup { Scan("none", pages) :
           pages \in { << OCRResult(<<>>, TRUE) >>,
                       << OCRResult(<<>>, FALSE), OCRResult(<<>>, TRUE) >>,
                       << OCRResult(T5, TRUE) >>,
                       << OCRResult(T5, TRUE), OCRResult(<<>>, FALSE), OCRResult(T10, TRUE) >>,
                       << OCRResult(<<>>, TRUE), OCRResult(T10, TRUE), OCRResult(T5, TRUE) >> } }

UpperLetter(c) ==
  CASE c = "p" -> "P" [] c = "d" -> "D" [] c = "f" -> "F" [] c = "o" -> "O"
    [] c = "c" -> "C" [] c = "x" -> "X" [] c = "t" -> "T" [] c = "m" -> "M"
    [] c = "e" -> "E" [] OTHER -> c

\* the spellings of name with every mix of upper- and lower-case letters
Spellings(name) ==
  { s \in [1..Len(name) -> {"p", "d", "f", "o", "c", "x", "t", "m",
                             "P", "D", "F", "O", "C", "X", "T", "M"}] :
      \A i \in 1..Len(name) : s[i] \in {name[i], UpperLetter(name[i])} }

\* the extensions supports is asked about: the supported ones in every letter
\* case behind no, one or two dots, and others
Extensions ==
  { dots \o s : dots \in {<<>>, <<".">>, <<".", ".">>},
                s \in UNION { Spellings(Letters(ft)) : ft \in {"pdf", "docx", "txt", "md"} } }
  \cup { <<>>, <<".">>, <<"e", "x", "e">>, <<".", "E", "X", "E">>, <<"p", "d">>,
         <<"p", "d", "f", "x">>, <<"d", "o", "c">>, <<".", "D", "O", "C">>,
         <<"t", "x", "t", " ">>, <<" ", "m", "d">>, <<"m", "d", ".">>,
         <<"p", ".", "d", "f">>, <<"t", "x">>, <<"x", "t">> }

\* the paths get_parser is asked about
Paths ==
  { stem \o <<".">> \o e : stem \in {<<"f">>, <<"d", ".", "e", "/", "f">>, <<"f", ".", "t", "x", "t">>},
                           e \in { x \in Extensions : x = <<>> \/ Head(x) # "." } }
  \cup { <<"f">>, <<".", "p", "d", "f">>, <<".", ".", "t", "x", "t">>,
         <<"d", "/", ".", "m", "d">>, <<"d", ".", "p", "d", "f", "/", "f">>,
         <<"f", ".", "p", "d", "f", "/">>, <<"f", ".", ".", "P", "D", "F">> }

\* the file names and sizes validate_file is given
FileNames == Paths \cup { <<>>, <<".">>, <<"f", ".">>, <<"f", ".", "p", "d", "f", " ">> }

\* the responses a download meets: every outcome of the request, a named or
\* unnamed file, a body of up to MaxChunks chunks, read through or broken off
Responses ==
  { Response(get, file_name, chunks, fault_at, fault_kind) :
      get \in {"ok", "timeout", "error"},
      file_name \in {Nothing} \cup { Some(f) : f \in Paths },
      chunks \in 0..MaxChunks,
      fault_at \in 0..(MaxChunks + 1),
      fault_kind \in {"timeout", "error"} }

FileSizes == {-1, 0, 1000, MAX_FILE_SIZE_BYTES - 1, MAX_FILE_SIZE_BYTES, MAX_FILE_SIZE_BYTES + 1}

\* the value of metadata.language process_document may be entered with
EntryLanguages(file) ==
  IF file \in {File("txt", "io_error", <<>>), File("pdf", "password", <<>>),
               File("txt", "none", T10)}
  THEN {None, "ru"}
  ELSE {None}

\* random.random() as 100 * (0.5 + random.random())
JitterPcts == {50, 100, 149}

\* The second answers worth drawing after the first: the capability is asked a
\* second time only when summarize corrects the first reply, and the scoring
\* pass runs again only when the first run left too few keywords.
SecondGenOutcomes(text, o1) ==
  IF ~IsShortText(text) /\ ~o1.raised /\ NeedsAdjust(CountSentences(Strip(o1.content)))
  THEN GenOutcomes
  ELSE {o1}

SecondScoreOutcomes(text, requested, s1) ==
  IF ~TextTooShort(text) /\ ~s1.raised
     /\ NeedsSecondPass(ExtractWithYake(s1, ClampCount(requested)))
  THEN ScoreOutcomes
  ELSE {s1}

\* ------------------------------------------------------------ state
VARIABLES
  config,         \* the RetryConfig of the RetryHandler
  pc,             \* where the program is: "new", "handler", "retry", "pd_parse", ...
  opsDone,        \* operations finished on the RetryHandler under test
  attempt_count,  \* RetryHandler._attempt_count
  last_delay,     \* RetryHandler._last_delay
  rh,             \* the running execute_with_retry: attempt, outcome, value
  op,             \* the operation under retry: how often it fails, calls made
  events,         \* calls and sleeps of the running execute_with_retry
  sumCalls,       \* the summarize calls made
  kwCalls,        \* the extract calls made
  pd,             \* process_document's locals
  stageLog,       \* the stages process_document invoked, in order
  auditLog,       \* the events the audit logger received
  result,         \* what process_document returned (an Optional)
  parseCalls,     \* the parser and process_pdf_pages calls made
  directCalls,    \* calls made of single methods and handlers: input (by argument name), output
  two,            \* two DocumentProcessor instances at work, the logging module, the log files
  ocr             \* two process_pdf_pages calls at work and the files of their working directory

vars == <<config, pc, opsDone, attempt_count, last_delay, rh, op, events, sumCalls,
          kwCalls, pd, stageLog, auditLog, result, parseCalls, directCalls, two, ocr>>

RhIdle == [func |-> None, attempt |-> 0, outcome |-> "none", value |-> Nothing]

OpIdle == [failures |-> 0, calls |-> 0, retryable |-> TRUE]

PdIdle ==
  [file |-> Nothing, metadata |-> Nothing, parse_result |-> Nothing,
   summary_result |-> Nothing, keywords_result |-> Nothing, language |-> None]

TwoIdle ==
  [handlers |-> <<>>,
   files |-> [f \in {LogFile(i) : i \in Instances} |-> <<>>],
   inst |-> [i \in Instances |->
               [constructed |-> FALSE, job |-> Nothing, written |-> 0, result |-> Nothing]]]

OcrCallIdle ==
  [pc |-> "idle", images |-> <<>>, i |-> 0, text_parts |-> <<>>, reads |-> <<>>, out |-> Nothing]

OcrIdle == [fs |-> [path \in TempPaths |-> Nothing], calls |-> [c \in Callers |-> OcrCallIdle]]

\* nothing is constructed yet
Init ==
  /\ config = RetryConfig(DEFAULT_MAX_RETRIES, TRUE)
  /\ pc = "new"
  /\ opsDone = 0
  /\ attempt_count = 0
  /\ last_delay = 0
  /\ rh = RhIdle
  /\ op = OpIdle
  /\ events = <<>>
  /\ sumCalls = <<>>
  /\ kwCalls = <<>>
  /\ pd = PdIdle
  /\ stageLog = <<>>
  /\ auditLog = <<>>
  /\ result = Nothing
  /\ parseCalls = <<>>
  /\ directCalls = <<>>
  /\ two = TwoIdle
  /\ ocr = OcrIdle

\* ------------------------------------------------------------ RetryHandler
\* RetryHandler(config), any configuration
NewRetryHandler ==
  /\ pc = "new"
  /\ \E m \in 0..MaxMaxRetries, j \in BOOLEAN : config' = RetryConfig(m, j)
  /\ pc' = "handler"
  /\ UNCHANGED <<ocr, two, directCalls, parseCalls, opsDone, attempt_count, last_delay, rh, op, events, sumCalls, kwCalls, pd,
                 stageLog, auditLog, result>>

\* The state of execute_with_retry after the call of func in loop iteration
\* h.attempt ended as `ended`: "returned", "raised" (an error of
\* retryable_errors) or "escaped" (any other error).  slept: the delay slept
\* before the next iteration, if there is one.
AfterCall(h, ended, value, delay) ==
  IF ended = "returned"
  THEN [h |-> [h EXCEPT !.outcome = "returned", !.value = Some(value)], slept |-> Nothing]
  ELSE IF ended = "escaped"
  THEN [h |-> [h EXCEPT !.outcome = "raised"], slept |-> Nothing]
  ELSE IF ShouldRetry(h.attempt, config.max_retries)
  THEN [h |-> IF h.attempt + 1 < LoopAttempts(config.max_retries)
              THEN [h EXCEPT !.attempt = @ + 1]
              ELSE [h EXCEPT !.outcome = "raised"],
        slept |-> Some(delay)]
  ELSE [h |-> [h EXCEPT !.outcome = "raised"], slept |-> Nothing]

\* the bookkeeping of an iteration were _last_delay cleared when it does not sleep
RetryBookkeepingFresh(next) ==
  /\ attempt_count' = rh.attempt + 1
  /\ last_delay' = IF IsNothing(next.slept) THEN 0 ELSE Get(next.slept)
  /\ events' = events \o << [kind |-> "call", attempt |-> rh.attempt, delay |-> 0] >>
                      \o (IF IsNothing(next.slept) THEN <<>>
                          ELSE << [kind |-> "sleep", attempt |-> rh.attempt,
                                   delay |-> Get(next.slept)] >>)

\* the handler's fields and the record of calls and sleeps after that iteration
RetryBookkeeping(next) ==
  /\ attempt_count' = rh.attempt + 1
  /\ last_delay' = IF IsNothing(next.slept) THEN last_delay ELSE Get(next.slept)
  /\ events' = events \o << [kind |-> "call", attempt |-> rh.attempt, delay |-> 0] >>
                      \o (IF IsNothing(next.slept) THEN <<>>
                          ELSE << [kind |-> "sleep", attempt |-> rh.attempt,
                                   delay |-> Get(next.slept)] >>)

\* execute_with_retry(func) is called on an operation that fails its first n
\* calls, with an error of retryable_errors or with another one
StartExecuteWithRetry ==
  /\ pc = "handler"
  /\ opsDone < MaxOps
  /\ \E n \in 0..(MaxMaxRetries + 1), retryable \in BOOLEAN :
       op' = [failures |-> n, calls |-> 0, retryable |-> retryable]
  /\ events' = <<>>
  /\ pc' = "retry"
  /\ rh' = [RhIdle EXCEPT !.func = "op"]
  /\ attempt_count' = 0
  /\ UNCHANGED <<ocr, two, directCalls, parseCalls, config, opsDone, last_delay, sumCalls, kwCalls, pd, stageLog, auditLog,
                 result>>

\* one iteration of the loop around the operation
RetryAttemptOp ==
  /\ pc = "retry"
  /\ rh.outcome = "none"
  /\ \E pct \in JitterPcts :
       LET fails == op.calls + 1 <= op.failures
           ended == IF ~fails THEN "returned"
                    ELSE IF op.retryable THEN "raised" ELSE "escaped"
           next == AfterCall(rh, ended, "success", GetDelay(config, rh.attempt, pct))
       IN  /\ rh' = next.h
           /\ RetryBookkeeping(next)
           /\ op' = [op EXCEPT !.calls = @ + 1]
           /\ pc' = IF next.h.outcome = "none" THEN "retry" ELSE "handler"
           /\ opsDone' = IF next.h.outcome = "none" THEN opsDone ELSE opsDone + 1
  /\ UNCHANGED <<ocr, two, directCalls, parseCalls, config, sumCalls, kwCalls, pd, stageLog, auditLog, result>>

\* RetryHandler.reset
Reset ==
  /\ pc = "handler"
  /\ opsDone < MaxOps
  /\ attempt_count' = 0
  /\ last_delay' = 0
  /\ opsDone' = opsDone + 1
  /\ UNCHANGED <<ocr, two, directCalls, parseCalls, config, pc, rh, op, events, sumCalls, kwCalls, pd, stageLog, auditLog,
                 result>>

\* ------------------------------------------------------------ direct calls
SumCall(text, language, run) ==
  [text |-> text, language |-> language, calls |-> run.calls, result |-> run.result]

\* OpenAISummarizer.summarize called on its own
CallSummarize ==
  /\ pc = "new"
  /\ \E text \in Texts, language \in Languages, o1 \in GenOutcomes :
     \E o2 \in SecondGenOutcomes(text, o1) :
       sumCalls' = << SumCall(text, language, Summarize(text, language, o1, o2)) >>
  /\ pc' = "done"
  /\ UNCHANGED <<ocr, two, directCalls, parseCalls, config, opsDone, attempt_count, last_delay, rh, op, events, kwCalls, pd,
                 stageLog, auditLog, result>>

KwCall(text, requested, run) ==
  [text |-> text, requested |-> requested, passes |-> run.passes, ranked |-> run.ranked,
   result |-> run.result]

\* KeywordExtractor.extract called on its own
CallExtract ==
  /\ pc = "new"
  /\ \E text \in Texts, requested \in RequestedCounts, s1 \in ScoreOutcomes :
     \E s2 \in SecondScoreOutcomes(text, requested, s1) :
       kwCalls' = << KwCall(text, requested, Extract(text, requested, s1, s2)) >>
  /\ pc' = "done"
  /\ UNCHANGED <<ocr, two, directCalls, parseCalls, config, opsDone, attempt_count, last_delay, rh, op, events, sumCalls, pd,
                 stageLog, auditLog, result>>

\* a parser's parse called on its own
CallParse ==
  /\ pc = "new"
  /\ \E file \in ParserFiles :
       parseCalls' = << [producer |-> file.file_type, input |-> file,
                         run |-> ParseWith(file.file_type, file)] >>
  /\ pc' = "done"
  /\ UNCHANGED <<ocr, two, directCalls, config, opsDone, attempt_count, last_delay, rh, op, events,
                 sumCalls, kwCalls, pd, stageLog, auditLog, result>>

\* parser.supports(extension) asked of each registered parser
CallSupports ==
  /\ pc = "new"
  /\ \E extension \in Extensions :
       directCalls' = << [fn |-> "supports", input |-> [file_extension |-> extension],
                          output |-> { RegisteredParsers[i] : i \in
                                       { k \in 1..Len(RegisteredParsers) :
                                           Supports(RegisteredParsers[k], extension) } }] >>
  /\ pc' = "done"
  /\ UNCHANGED <<ocr, two, parseCalls, config, opsDone, attempt_count, last_delay, rh, op, events,
                 sumCalls, kwCalls, pd, stageLog, auditLog, result>>

\* ParserFactory().get_parser(file_path)
CallGetParser ==
  /\ pc = "new"
  /\ \E file_path \in Paths :
       directCalls' = << [fn |-> "get_parser", input |-> [file_path |-> file_path],
                          output |-> GetParser(file_path)] >>
  /\ pc' = "done"
  /\ UNCHANGED <<ocr, two, parseCalls, config, opsDone, attempt_count, last_delay, rh, op, events,
                 sumCalls, kwCalls, pd, stageLog, auditLog, result>>

\* LanguageDetector().detect(text)
CallDetect ==
  /\ pc = "new"
  /\ \E text \in DetectTexts :
       directCalls' = << [fn |-> "detect", input |-> [text |-> text], output |-> Detect(text)] >>
  /\ pc' = "done"
  /\ UNCHANGED <<ocr, two, parseCalls, config, opsDone, attempt_count, last_delay, rh, op, events,
                 sumCalls, kwCalls, pd, stageLog, auditLog, result>>

\* config.get_delay(attempt)
CallGetDelay ==
  /\ pc = "new"
  /\ \E cfg \in DelayConfigs, attempt \in DelayAttempts, jitter_pct \in JitterPcts :
       /\ ~cfg.jitter => jitter_pct = 100
       /\ directCalls' = << [fn |-> "get_delay", input |-> [config |-> cfg, attempt |-> attempt],
                             output |-> GetDelayCall(cfg, attempt, jitter_pct)] >>
  /\ pc' = "done"
  /\ UNCHANGED <<ocr, two, parseCalls, config, opsDone, attempt_count, last_delay, rh, op, events,
                 sumCalls, kwCalls, pd, stageLog, auditLog, result>>

\* handle_document(update, context)
CallHandleDocument ==
  /\ pc = "new"
  /\ \E update \in Updates :
       directCalls' = << [fn |-> "handle_document", input |-> [update |-> update],
                          output |-> HandleDocument(update)] >>
  /\ pc' = "done"
  /\ UNCHANGED <<ocr, two, parseCalls, config, opsDone, attempt_count, last_delay, rh, op, events,
                 sumCalls, kwCalls, pd, stageLog, auditLog, result>>

\* OCREngine.process_pdf_pages called on its own
CallProcessPdfPages ==
  /\ pc = "new"
  /\ \E scan \in Scans :
       parseCalls' = << [producer |-> "ocr", input |-> scan,
                         run |-> ParserRun(FALSE, Some(ProcessPdfPages(scan)), <<>>, None)] >>
  /\ pc' = "done"
  /\ UNCHANGED <<ocr, two, directCalls, config, opsDone, attempt_count, last_delay, rh, op, events,
                 sumCalls, kwCalls, pd, stageLog, auditLog, result>>

\* ------------------------------------------------------------ process_document
\* DocumentProcessor(config): its RetryConfig takes max_retries from the
\* workflow configuration and keeps the default jitter
NewDocumentProcessor ==
  /\ pc = "new"
  /\ \E m \in 0..MaxMaxRetries : config' = RetryConfig(m, TRUE)
  /\ pc' = "processor"
  /\ UNCHANGED <<ocr, two, directCalls, parseCalls, opsDone, attempt_count, last_delay, rh, op, events, sumCalls, kwCalls, pd,
                 stageLog, auditLog, result>>

Metadata(file_type, language) ==
  [file_name |-> "document", file_size |-> 1, file_type |-> file_type, uploader_id |-> 1,
   timestamp |-> 1, uploader_username |-> None, language |-> language, source_url |-> None,
   telegram_file_id |-> None]

\* process_document is called: log_upload
StartProcessDocument ==
  /\ pc = "processor"
  /\ \E file \in Files :
     \E language \in EntryLanguages(file) :
       LET metadata == Metadata(file.file_type, language)
       IN  /\ pd' = [PdIdle EXCEPT !.file = Some(file), !.metadata = Some(metadata)]
           /\ auditLog' = << LogUpload(metadata) >>
  /\ pc' = "pd_parse"
  /\ UNCHANGED <<ocr, two, directCalls, parseCalls, config, opsDone, attempt_count, last_delay, rh, op, events, sumCalls,
                 kwCalls, stageLog, result>>

\* the stage result on which process_document returns early
StageFailedNever(r) == FALSE

StageFailed(r) == ~r.success

\* metadata.language = language
AttachLanguageNoop(metadata, language) == metadata

\* the assignment, were the uploader's name cleared with it
AttachLanguageClearingName(metadata, language) ==
  [metadata EXCEPT !.language = language, !.uploader_username = ""]

AttachLanguage(metadata, language) == [metadata EXCEPT !.language = language]

Run(returned, logged) == [result |-> returned, logged |-> logged]

\* process_document from keyword extraction to its return
RunFromKeywords(metadata, parse_result, summary_result, keywords_result, logged) ==
  IF StageFailed(keywords_result)
  THEN Run(CreateFailedResult(metadata, Some(parse_result), Some(summary_result),
                              Some(keywords_result), keywords_result.error_scenario),
           logged)
  ELSE Run(ProcessingResult(metadata, parse_result, summary_result, keywords_result,
                            "completed", None),
           Append(logged, LogKeywords(keywords_result.count, "success")))

\* process_document from the summary to its return
RunFromSummary(metadata, parse_result, summary_result, s, logged) ==
  IF StageFailed(summary_result)
  THEN Run(CreateFailedResult(metadata, Some(parse_result), Some(summary_result), Nothing,
                              summary_result.error_scenario),
           logged)
  ELSE RunFromKeywords(metadata, parse_result, summary_result,
                       Extract(parse_result.text, Some(KEYWORDS_MAX_COUNT), s, s).result,
                       Append(logged, LogApiCall("success", summary_result.tokens_used)))

\* process_document from language detection to its return
RunFromDetect(metadata, parse_result, language, o, s, logged) ==
  RunFromSummary(AttachLanguage(metadata, language), parse_result,
                 Summarize(parse_result.text, language, o, o).result, s, logged)

\* process_document from the parse result to its return
RunFromParse(metadata, parsed, o, s) ==
  IF StageFailed(parsed.result)
  THEN Run(CreateFailedResult(metadata, Some(parsed.result), Nothing, Nothing,
                              parsed.result.error_scenario),
           << LogUpload(metadata) >> \o parsed.logged)
  ELSE RunFromDetect(metadata, parsed.result, Detect(parsed.result.text), o, s,
                     << LogUpload(metadata) >> \o parsed.logged
                       \o << LogExtraction("success", parsed.result.char_count) >>)

\* process_document from its call to its return, the generation capability
\* answering o and the scoring pass s each time they are asked: the result
\* and the records handed to the audit logger, in order
ProcessDocumentRun(file, o, s) ==
  RunFromParse(Metadata(file.file_type, None), ParseDocument(file), o, s)

\* process_document run on each job
JobRuns == [job \in Jobs |-> ProcessDocumentRun(job.file, job.o, job.s)]

\* process_document returns r
Return(r) ==
  /\ result' = Some(r)
  /\ pc' = "done"

\* parse_result = self._parse_document(...), the failure exit, log_extraction
ParseStage ==
  /\ pc = "pd_parse"
  /\ LET parsed == ParseDocument(Get(pd.file))
         r == parsed.result
     IN  /\ pd' = [pd EXCEPT !.parse_result = Some(r)]
         /\ IF StageFailed(r)
            THEN /\ auditLog' = auditLog \o parsed.logged
                 /\ Return(CreateFailedResult(Get(pd.metadata), Some(r), Nothing, Nothing,
                                              r.error_scenario))
            ELSE /\ auditLog' = auditLog \o parsed.logged
                                \o << LogExtraction("success", r.char_count) >>
                 /\ pc' = "pd_detect"
                 /\ UNCHANGED result
  /\ stageLog' = Append(stageLog, "parse")
  /\ UNCHANGED <<ocr, two, directCalls, parseCalls, config, opsDone, attempt_count, last_delay, rh, op, events, sumCalls,
                 kwCalls>>

\* language = self.language_detector.detect(...); metadata.language = language
DetectStage ==
  /\ pc = "pd_detect"
  /\ LET language == Detect(Get(pd.parse_result).text)
     IN  pd' = [pd EXCEPT !.language = language,
                          !.metadata = Some(AttachLanguage(Get(pd.metadata), language))]
  /\ stageLog' = Append(stageLog, "detect")
  /\ pc' = "pd_summarize"
  /\ UNCHANGED <<ocr, two, directCalls, parseCalls, config, opsDone, attempt_count, last_delay, rh, op, events, sumCalls,
                 kwCalls, auditLog, result>>

\* _summarize_with_retry enters execute_with_retry(summarize_func)
SummarizeStage ==
  /\ pc = "pd_summarize"
  /\ stageLog' = Append(stageLog, "summarize")
  /\ rh' = [RhIdle EXCEPT !.func = "summarize"]
  /\ attempt_count' = 0
  /\ pc' = "pd_retry"
  /\ UNCHANGED <<ocr, two, directCalls, parseCalls, config, opsDone, last_delay, op, events, sumCalls, kwCalls, pd, auditLog,
                 result>>

\* one iteration of the loop around summarize_func, which returns what
\* summarize returns
RetryAttemptSummarize ==
  /\ pc = "pd_retry"
  /\ rh.outcome = "none"
  /\ \E o1 \in GenOutcomes :
     \E o2 \in SecondGenOutcomes(Get(pd.parse_result).text, o1) :
       LET text == Get(pd.parse_result).text
       IN  sumCalls' = Append(sumCalls,
                              SumCall(text, pd.language, Summarize(text, pd.language, o1, o2)))
  /\ \E pct \in JitterPcts :
       LET returned == sumCalls'[Len(sumCalls')].result
           next == AfterCall(rh, "returned", returned, GetDelay(config, rh.attempt, pct))
       IN  /\ rh' = next.h
           /\ RetryBookkeeping(next)
  /\ UNCHANGED <<ocr, two, directCalls, parseCalls, config, pc, opsDone, op, kwCalls, pd, stageLog, auditLog, result>>

\* execute_with_retry is over: the except branch of _summarize_with_retry, the
\* failure exit of process_document, log_api_call
AfterSummarize ==
  /\ pc = "pd_retry"
  /\ rh.outcome # "none"
  /\ LET raised == rh.outcome = "raised"
         r == IF raised
              THEN SummaryResult(<<>>, 0, pd.language, FALSE, "openai_gpt4", Nothing,
                                 "api_error")
              ELSE Get(rh.value)
         logged == IF raised
                   THEN << LogError("SummarizationError", "api_error"),
                           LogApiCall("error", Nothing) >>
                   ELSE <<>>
     IN  /\ pd' = [pd EXCEPT !.summary_result = Some(r)]
         /\ IF StageFailed(r)
            THEN /\ auditLog' = auditLog \o logged
                 /\ Return(CreateFailedResult(Get(pd.metadata), pd.parse_result, Some(r),
                                              Nothing, r.error_scenario))
            ELSE /\ auditLog' = auditLog \o logged
                                \o << LogApiCall("success", r.tokens_used) >>
                 /\ pc' = "pd_keywords"
                 /\ UNCHANGED result
  /\ UNCHANGED <<ocr, two, directCalls, parseCalls, config, opsDone, attempt_count, last_delay, rh, op, events, sumCalls,
                 kwCalls, stageLog>>

\* keywords_result = self._extract_keywords(...), the failure exit,
\* log_keywords, the completed result
KeywordsStage ==
  /\ pc = "pd_keywords"
  /\ \E s1 \in ScoreOutcomes :
     \E s2 \in SecondScoreOutcomes(Get(pd.parse_result).text, Some(KEYWORDS_MAX_COUNT), s1) :
       LET text == Get(pd.parse_result).text
           requested == Some(KEYWORDS_MAX_COUNT)
       IN  kwCalls' = Append(kwCalls, KwCall(text, requested, Extract(text, requested, s1, s2)))
  /\ LET r == kwCalls'[Len(kwCalls')].result
     IN  /\ pd' = [pd EXCEPT !.keywords_result = Some(r)]
         /\ IF StageFailed(r)
            THEN /\ auditLog' = auditLog
                 /\ Return(CreateFailedResult(Get(pd.metadata), pd.parse_result,
                                              pd.summary_result, Some(r), r.error_scenario))
            ELSE /\ auditLog' = Append(auditLog, LogKeywords(r.count, "success"))
                 /\ Return(ProcessingResult(Get(pd.metadata), Get(pd.parse_result),
                                            Get(pd.summary_result), r, "completed", None))
  /\ stageLog' = Append(stageLog, "keywords")
  /\ UNCHANGED <<ocr, two, directCalls, parseCalls, config, opsDone, attempt_count, last_delay, rh, op, events, sumCalls>>

\* validate_file(file_name, file_size)
\* one call of DocumentProcessor.download_from_url
CallDownloadFromUrl ==
  /\ pc = "new"
  /\ \E url_valid \in BOOLEAN, response \in Responses :
       directCalls' = << [fn |-> "download_from_url",
                          input |-> [url_valid |-> url_valid, response |-> response],
                          output |-> DownloadFromUrl(url_valid, response)] >>
  /\ pc' = "done"
  /\ UNCHANGED <<ocr, two, parseCalls, config, opsDone, attempt_count, last_delay, rh, op, events,
                 sumCalls, kwCalls, pd, stageLog, auditLog, result>>

CallValidateFile ==
  /\ pc = "new"
  /\ \E file_name \in FileNames, file_size \in FileSizes :
       directCalls' = << [fn |-> "validate_file",
                          input |-> [file_name |-> file_name, file_size |-> file_size],
                          output |-> validate_file(file_name, file_size)] >>
  /\ pc' = "done"
  /\ UNCHANGED <<ocr, two, parseCalls, config, opsDone, attempt_count, last_delay, rh, op, events,
                 sumCalls, kwCalls, pd, stageLog, auditLog, result>>

\* storage.save_row(row)
CallSaveRow ==
  /\ pc = "new"
  /\ \E storage \in Storages, row \in Rows, auth_ok \in BOOLEAN :
     \E faults \in WriteFaults(storage.retry_config.max_retries) :
       /\ storage.authenticated => auth_ok
       /\ ~HasRequiredFields(row) => faults = <<>>
       /\ directCalls' = << [fn |-> "save_row",
                             input |-> [storage |-> storage, row |-> row, auth_ok |-> auth_ok,
                                        faults |-> faults],
                             output |-> SaveRow(storage, row, auth_ok, faults)] >>
  /\ pc' = "done"
  /\ UNCHANGED <<ocr, two, parseCalls, config, opsDone, attempt_count, last_delay, rh, op, events,
                 sumCalls, kwCalls, pd, stageLog, auditLog, result>>

\* storage.save_result(result) of what process_document returned, the user
\* having a username or none
CallSaveResult ==
  /\ pc = "new"
  /\ \E storage \in Storages, job \in Jobs, username \in {None, "user"}, auth_ok \in BOOLEAN :
     \E faults \in WriteFaults(storage.retry_config.max_retries) :
       LET returned == [JobRuns[job].result EXCEPT !.metadata.uploader_username = username]
       IN  /\ storage.authenticated => auth_ok
           /\ Len(faults) <= 1
           /\ directCalls' = << [fn |-> "save_result",
                                 input |-> [storage |-> storage, result |-> returned,
                                            auth_ok |-> auth_ok, faults |-> faults],
                                 output |-> SaveResult(storage, returned, auth_ok, faults)] >>
  /\ pc' = "done"
  /\ UNCHANGED <<ocr, two, parseCalls, config, opsDone, attempt_count, last_delay, rh, op, events,
                 sumCalls, kwCalls, pd, stageLog, auditLog, result>>

\* ------------------------------------------------------------ two process_pdf_pages calls
\* one of the calls begins: the pages are rendered, the loop is at page 0
StartProcessPdfPages ==
  /\ pc \in {"new", "ocr"}
  /\ \E c \in Callers, pages \in 1..MaxPages :
       /\ ocr.calls[c].pc = "idle"
       /\ ocr' = [ocr EXCEPT !.calls[c] = [OcrCallIdle EXCEPT !.pc = "save",
                                             !.images = ConvertFromPath(c, pages)]]
  /\ pc' = "ocr"
  /\ UNCHANGED <<two, directCalls, parseCalls, config, opsDone, attempt_count, last_delay, rh,
                 op, events, sumCalls, kwCalls, pd, stageLog, auditLog, result>>

\* image.save(temp_path, "PNG")
SavePage ==
  /\ pc = "ocr"
  /\ \E c \in Callers :
       /\ ocr.calls[c].pc = "save"
       /\ ocr' = [ocr EXCEPT !.fs[TempPath(ocr.calls[c].i)] =
                                 Some(ocr.calls[c].images[ocr.calls[c].i + 1]),
                             !.calls[c].pc = "extract"]
  /\ UNCHANGED <<two, directCalls, parseCalls, config, pc, opsDone, attempt_count, last_delay,
                 rh, op, events, sumCalls, kwCalls, pd, stageLog, auditLog, result>>

\* result = self.extract_text(temp_path), and the append to text_parts
ExtractPage ==
  /\ pc = "ocr"
  /\ \E c \in Callers :
       /\ ocr.calls[c].pc = "extract"
       /\ ocr' = [ocr EXCEPT
            !.calls[c].text_parts =
               IF ExtractText(ocr.fs, TempPath(ocr.calls[c].i)).success
                  /\ ExtractText(ocr.fs, TempPath(ocr.calls[c].i)).text # <<>>
               THEN Append(@, ExtractText(ocr.fs, TempPath(ocr.calls[c].i)).text)
               ELSE @,
            !.calls[c].reads = Append(@, [i |-> ocr.calls[c].i,
                                          image |-> ocr.fs[TempPath(ocr.calls[c].i)]]),
            !.calls[c].pc = "exists"]
  /\ UNCHANGED <<two, directCalls, parseCalls, config, pc, opsDone, attempt_count, last_delay,
                 rh, op, events, sumCalls, kwCalls, pd, stageLog, auditLog, result>>

\* finally: if os.path.exists(temp_path)
PathExists ==
  /\ pc = "ocr"
  /\ \E c \in Callers :
       /\ ocr.calls[c].pc = "exists"
       /\ ocr' = [ocr EXCEPT !.calls[c] =
                     IF IsNothing(ocr.fs[TempPath(ocr.calls[c].i)])
                     THEN AfterPage(ocr.calls[c])
                     ELSE [@ EXCEPT !.pc = "remove"]]
  /\ UNCHANGED <<two, directCalls, parseCalls, config, pc, opsDone, attempt_count, last_delay,
                 rh, op, events, sumCalls, kwCalls, pd, stageLog, auditLog, result>>

\* os.remove(temp_path): FileNotFoundError when the file is gone by now, which
\* leaves the loop for the except branch of process_pdf_pages (the message
\* mentions neither a password nor poppler)
RemovePage ==
  /\ pc = "ocr"
  /\ \E c \in Callers :
       /\ ocr.calls[c].pc = "remove"
       /\ ocr' = IF IsNothing(ocr.fs[TempPath(ocr.calls[c].i)])
                 THEN [ocr EXCEPT !.calls[c].pc = "done",
                                  !.calls[c].out = Some(OcrFailure("ocr_failed"))]
                 ELSE [ocr EXCEPT !.fs[TempPath(ocr.calls[c].i)] = Nothing,
                                  !.calls[c] = AfterPage(@)]
  /\ UNCHANGED <<two, directCalls, parseCalls, config, pc, opsDone, attempt_count, last_delay,
                 rh, op, events, sumCalls, kwCalls, pd, stageLog, auditLog, result>>

\* ------------------------------------------------------------ two DocumentProcessor instances
\* DocumentProcessor(config) with a WorkflowConfig whose log_file_path is
\* LogFile(i): ProcessingLogger.__init__ takes the logger the logging module
\* keeps under the name "processing_logger", clears its handlers and adds a
\* FileHandler for its own log file.
ConstructProcessor ==
  /\ pc \in {"new", "two"}
  /\ \E i \in Instances :
       /\ ~two.inst[i].constructed
       /\ two' = [two EXCEPT !.handlers = SetupLogger(two.handlers, LogFile(i)),
                             !.inst[i].constructed = TRUE]
  /\ pc' = "two"
  /\ UNCHANGED <<ocr, directCalls, parseCalls, config, opsDone, attempt_count, last_delay, rh, op,
                 events, sumCalls, kwCalls, pd, stageLog, auditLog, result>>

\* instance i's process_document is called on a document: log_upload
CallProcessDocument ==
  /\ pc = "two"
  /\ \E i \in Instances, job \in Jobs :
       /\ two.inst[i].constructed
       /\ IsNothing(two.inst[i].job)
       /\ LET run == JobRuns[job]
          IN  two' = [two EXCEPT !.files = WriteLog(two.handlers, two.files, run.logged[1]),
                                !.inst[i].job = Some(job),
                                !.inst[i].written = 1,
                                !.inst[i].result = IF Len(run.logged) = 1 THEN Some(run.result)
                                                   ELSE Nothing]
  /\ UNCHANGED <<ocr, directCalls, parseCalls, config, pc, opsDone, attempt_count, last_delay, rh, op,
                 events, sumCalls, kwCalls, pd, stageLog, auditLog, result>>

\* instance i's process_document goes on to its next audit record, and
\* returns after its last
ProcessDocumentStep ==
  /\ pc = "two"
  /\ \E i \in Instances :
       /\ ~IsNothing(two.inst[i].job)
       /\ IsNothing(two.inst[i].result)
       /\ LET job == Get(two.inst[i].job)
              run == JobRuns[job]
              k == two.inst[i].written + 1
          IN  two' = [two EXCEPT !.files = WriteLog(two.handlers, two.files, run.logged[k]),
                                !.inst[i].written = k,
                                !.inst[i].result = IF k = Len(run.logged) THEN Some(run.result)
                                                   ELSE Nothing]
  /\ UNCHANGED <<ocr, directCalls, parseCalls, config, pc, opsDone, attempt_count, last_delay, rh, op,
                 events, sumCalls, kwCalls, pd, stageLog, auditLog, result>>

Next ==
  \/ NewRetryHandler
  \/ StartExecuteWithRetry
  \/ RetryAttemptOp
  \/ Reset
  \/ CallSummarize
  \/ CallExtract
  \/ CallParse
  \/ CallProcessPdfPages
  \/ CallSupports
  \/ CallGetParser
  \/ CallDetect
  \/ CallGetDelay
  \/ CallHandleDocument
  \/ CallSaveRow
  \/ CallSaveResult
  \/ CallValidateFile
  \/ CallDownloadFromUrl
  \/ StartProcessPdfPages
  \/ SavePage
  \/ ExtractPage
  \/ PathExists
  \/ RemovePage
  \/ ConstructProcessor
  \/ CallProcessDocument
  \/ ProcessDocumentStep
  \/ NewDocumentProcessor
  \/ StartProcessDocument
  \/ ParseStage
  \/ DetectStage
  \/ SummarizeStage
  \/ RetryAttemptSummarize
  \/ AfterSummarize
  \/ KeywordsStage

Spec == Init /\ [][Next]_vars

\* ------------------------------------------------------------ claims
\* the execute_with_retry of the operation that fails its first op.failures
\* calls with an error of retryable_errors is over
RetryOver == rh.func = "op" /\ rh.outcome # "none" /\ op.retryable

\* C1: execute_with_retry on an operation that fails its first n calls with a
\* retryable error: for n <= max_retries the operation is called exactly n+1
\* times and the success value is returned; for n > max_retries the error is
\* re-raised after exactly max_retries+1 calls.
C1_RetryCallCount ==
  RetryOver =>
    /\ op.failures <= config.max_retries =>
         /\ op.calls = op.failures + 1
         /\ rh.outcome = "returned"
         /\ rh.value = Some("success")
    /\ op.failures > config.max_retries =>
         /\ op.calls = config.max_retries + 1
         /\ rh.outcome = "raised"

C1_Witness ==
  /\ RetryOver
  /\ op.failures = 2
  /\ config.max_retries = 2
  /\ op.calls = 3
  /\ rh.outcome = "returned"

\* every generation call process_document's summarization made, in order
RECURSIVE GenCallsOf(_)
GenCallsOf(calls) ==
  IF calls = <<>> THEN <<>> ELSE Head(calls).calls \o GenCallsOf(Tail(calls))

SummarizationOver == pc \in {"pd_keywords", "done"} /\ ~IsNothing(pd.summary_result)

\* C2: in process_document a generation call that raises a retryable error is
\* retried: the summarization step fails for good only after max_retries+1
\* failed generation calls.
C2_GenerationRetried ==
  (/\ SummarizationOver
   /\ ~Get(pd.summary_result).success
   /\ \A i \in 1..Len(GenCallsOf(sumCalls)) : GenCallsOf(sumCalls)[i].outcome.raised)
  => Len(GenCallsOf(sumCalls)) = config.max_retries + 1

\* C3: summarize on a text of at least 100 characters: success implies
\* 3 <= sentence_count <= 7.
C3_SentenceBounds ==
  \A i \in 1..Len(sumCalls) :
    (Len(sumCalls[i].text) >= 100 /\ sumCalls[i].result.success)
    => (3 <= sumCalls[i].result.sentence_count /\ sumCalls[i].result.sentence_count <= 7)

\* the sentence count of the reply to generation call k of summarize call c
ReplyCount(c, k) == CountSentences(c.calls[k].outcome.content)

\* C4: summarize on a text of at least 100 characters whose first generation
\* call answers: one call when the first reply has 3 to 7 sentences, otherwise
\* exactly two, the second asking for exactly 3 sentences when the first count
\* was below 3 and exactly 7 when it was above 7; the returned sentence_count
\* is that of the second reply; never a third call.
C4_OneCorrection ==
  \A i \in 1..Len(sumCalls) :
    LET c == sumCalls[i]
    IN  (Len(c.text) >= 100 /\ Len(c.calls) >= 1 /\ ~c.calls[1].outcome.raised)
        => /\ Len(c.calls) <= 2
           /\ (3 <= ReplyCount(c, 1) /\ ReplyCount(c, 1) <= 7) => Len(c.calls) = 1
           /\ ReplyCount(c, 1) < 3 =>
                /\ Len(c.calls) = 2
                /\ c.calls[2].prompt.lo = 3 /\ c.calls[2].prompt.hi = 3
           /\ ReplyCount(c, 1) > 7 =>
                /\ Len(c.calls) = 2
                /\ c.calls[2].prompt.lo = 7 /\ c.calls[2].prompt.hi = 7
           /\ (Len(c.calls) = 2 /\ ~c.calls[2].outcome.raised) =>
                /\ c.result.success
                /\ c.result.sentence_count = ReplyCount(c, 2)

C4_Witness ==
  \E i \in 1..Len(sumCalls) :
    LET c == sumCalls[i]
    IN  /\ Len(c.text) >= 100
        /\ Len(c.calls) = 2
        /\ ~c.calls[1].outcome.raised
        /\ ~c.calls[2].outcome.raised
        /\ ReplyCount(c, 1) > 7
        /\ c.calls[2].prompt.lo = 7
        /\ c.result.sentence_count = 3

\* C5: summarize on a text shorter than 100 characters makes no generation
\* call and returns success with the text as summary, its sentence count and
\* tokens_used 0; a text of exactly 100 characters goes to the capability.
C5_ShortTextEchoed ==
  \A i \in 1..Len(sumCalls) :
    LET c == sumCalls[i]
    IN  /\ Len(c.text) < 100 =>
             /\ c.calls = <<>>
             /\ c.result.success
             /\ c.result.summary = c.text
             /\ c.result.sentence_count = CountSentences(c.text)
             /\ c.result.tokens_used = Some(0)
        /\ Len(c.text) = 100 => Len(c.calls) >= 1

C5_Witness ==
  \E i \in 1..Len(sumCalls) :
    /\ Len(sumCalls[i].text) = 99
    /\ sumCalls[i].calls = <<>>
    /\ sumCalls[i].result.success
    /\ sumCalls[i].result.sentence_count = 2

StageOrder == <<"parse", "detect", "summarize", "keywords">>

Failed(o) == ~IsNothing(o) /\ ~Get(o).success

Succeeded(o) == ~IsNothing(o) /\ Get(o).success

Returned(status) == ~IsNothing(result) /\ Get(result).status = status

\* C6: process_document invokes parse, language detection, summarization and
\* keyword extraction in that order, each after the previous one finished;
\* after the first stage whose result has success=false no later stage is
\* invoked and the call has returned with status FAILED.
C6_StagesInOrder ==
  /\ Len(stageLog) <= Len(StageOrder)
  /\ stageLog = SubSeq(StageOrder, 1, Len(stageLog))
  /\ Len(stageLog) >= 2 => Succeeded(pd.parse_result)
  /\ Len(stageLog) >= 3 => pd.language # None
  /\ Len(stageLog) >= 4 => Succeeded(pd.summary_result)
  /\ Failed(pd.parse_result) => (stageLog = <<"parse">> /\ pc = "done" /\ Returned("failed"))
  /\ Failed(pd.summary_result) =>
       (stageLog = SubSeq(StageOrder, 1, 3) /\ pc = "done" /\ Returned("failed"))
  /\ Failed(pd.keywords_result) => (pc = "done" /\ Returned("failed"))

C6_Witness ==
  /\ Succeeded(pd.parse_result)
  /\ Failed(pd.summary_result)
  /\ stageLog = <<"parse", "detect", "summarize">>
  /\ Returned("failed")

\* C7: a returned ProcessingResult is COMPLETED or FAILED; it is COMPLETED
\* exactly when its parse, summary and keywords results all have success=true,
\* and then error_scenario is absent and metadata.language is set.
C7_CompletedIffAllSucceeded ==
  ~IsNothing(result) =>
    LET r == Get(result)
        all == r.parse_result.success /\ r.summary_result.success /\ r.keywords_result.success
    IN  /\ r.status \in {"completed", "failed"}
        /\ r.status = "completed" <=> all
        /\ r.status = "completed" => (r.error_scenario = None /\ r.metadata.language # None)

C7_Witness ==
  /\ Returned("completed")
  /\ Get(result).keywords_result.count = 10
  /\ Get(result).metadata.language = "ru"

\* the empty result _create_failed_result puts in place of one never computed
EmptySummary(r, scenario) ==
  /\ ~r.success
  /\ r.summary = <<>>
  /\ r.sentence_count = 0
  /\ r.error_scenario = scenario

EmptyKeywords(r, scenario) ==
  /\ ~r.success
  /\ r.keywords = <<>>
  /\ r.formatted = <<>>
  /\ r.count = 0
  /\ r.error_scenario = scenario

\* C8: a FAILED ProcessingResult carries an error_scenario of the enumeration,
\* that of the stage result that failed, and every downstream result never
\* computed is an empty failure carrying the same scenario.
C8_FailedCarriesScenario ==
  Returned("failed") =>
    LET r == Get(result)
    IN  /\ r.error_scenario \in ErrorScenario
        /\ ~r.parse_result.success =>
             /\ r.error_scenario = r.parse_result.error_scenario
             /\ IsNothing(pd.summary_result) /\ IsNothing(pd.keywords_result)
             /\ EmptySummary(r.summary_result, r.error_scenario)
             /\ EmptyKeywords(r.keywords_result, r.error_scenario)
        /\ (r.parse_result.success /\ ~r.summary_result.success) =>
             /\ r.error_scenario = r.summary_result.error_scenario
             /\ IsNothing(pd.keywords_result)
             /\ EmptyKeywords(r.keywords_result, r.error_scenario)
        /\ (r.parse_result.success /\ r.summary_result.success) =>
             /\ ~r.keywords_result.success
             /\ r.error_scenario = r.keywords_result.error_scenario

C8_Witness ==
  /\ Returned("failed")
  /\ Get(result).parse_result.success
  /\ Get(result).error_scenario = "api_rate_limit"
  /\ EmptyKeywords(Get(result).keywords_result, "api_rate_limit")

\* the audit events of the stage boundaries (log_error records are not among them)
StageEvents == SelectSeq(auditLog, LAMBDA e : e.event_type # "error")

BoundaryEvents == <<"file_upload", "text_extraction", "api_call", "keyword_extraction">>

\* the stage boundaries a finished run reached: the upload, and the outcome of
\* parse, of summarization and of keyword extraction
BoundariesReached ==
  1 + (IF ~IsNothing(pd.parse_result) THEN 1 ELSE 0)
    + (IF ~IsNothing(pd.summary_result) THEN 1 ELSE 0)
    + (IF ~IsNothing(pd.keywords_result) THEN 1 ELSE 0)

\* C9: a finished run of process_document has emitted one audit event for each
\* stage boundary reached, in pipeline order, and the event of the stage that
\* failed carries a failure status and that stage's error scenario.
C9_EventPerBoundary ==
  (pc = "done" /\ ~IsNothing(result)) =>
    /\ Len(StageEvents) = BoundariesReached
    /\ \A i \in 1..Len(StageEvents) : StageEvents[i].event_type = BoundaryEvents[i]
    /\ Returned("failed") =>
         /\ StageEvents[Len(StageEvents)].status # "success"
         /\ StageEvents[Len(StageEvents)].error_scenario = Get(result).error_scenario

\* C10: extract returning success=true implies 5 <= count <= 10 and count
\* equal to the length of the keywords list.
C10_KeywordCountBounds ==
  \A i \in 1..Len(kwCalls) :
    kwCalls[i].result.success =>
      /\ 5 <= kwCalls[i].result.count
      /\ kwCalls[i].result.count <= 10
      /\ kwCalls[i].result.count = Len(kwCalls[i].result.keywords)

\* the keyword as the filter compares it: whitespace collapsed, lower-cased
Folded(kw) == [i \in 1..Len(CollapseWhitespace(kw)) |-> LowerChar(CollapseWhitespace(kw)[i])]

RECURSIVE IsSubsequence(_, _)
\* a is b with some entries left out
IsSubsequence(a, b) ==
  IF a = <<>> THEN TRUE
  ELSE IF b = <<>> THEN FALSE
  ELSE IF Head(a) = Head(b) THEN IsSubsequence(Tail(a), Tail(b))
  ELSE IsSubsequence(a, Tail(b))

\* C11: the keywords list extract returns holds no two entries equal when
\* compared case-insensitively after collapsing whitespace, and keeps the
\* candidates in the order the scoring pass ranked them, from the first pass
\* or from the re-run with max phrase length 3.
C11_UniqueInRankOrder ==
  \A n \in 1..Len(kwCalls) :
    LET c == kwCalls[n]
        kws == c.result.keywords
    IN  /\ \A i, j \in 1..Len(kws) : i # j => Folded(kws[i]) # Folded(kws[j])
        /\ IsSubsequence(kws, [i \in 1..Len(c.ranked) |-> CollapseWhitespace(c.ranked[i])])

C11_Witness ==
  \E n \in 1..Len(kwCalls) :
    /\ kwCalls[n].passes = <<2, 3>>
    /\ kwCalls[n].result.success
    /\ kwCalls[n].result.count = 10
    /\ \E i, j \in 1..Len(kwCalls[n].ranked) :
         i # j /\ Folded(kwCalls[n].ranked[i]) = Folded(kwCalls[n].ranked[j])

\* extract refused the text of call c without running the scoring pass
RefusedUnscored(c) ==
  /\ ~c.result.success
  /\ c.result.error_scenario = "empty_document"
  /\ c.result.keywords = <<>>
  /\ c.result.count = 0
  /\ c.passes = <<>>

NonWhitespace(text) == Len(SelectSeq(text, LAMBDA ch : ch # " "))

\* C12 (as amended): extract on a text whose length after stripping leading
\* and trailing whitespace is below 10 returns at once success=false with
\* EMPTY_DOCUMENT, no keywords and count 0, without running the scoring pass;
\* a text of stripped length 10 or more is scored.
C12_ShortStrippedTextRefused ==
  \A n \in 1..Len(kwCalls) :
    /\ Len(Strip(kwCalls[n].text)) < 10 => RefusedUnscored(kwCalls[n])
    /\ Len(Strip(kwCalls[n].text)) >= 10 => kwCalls[n].passes # <<>>

C12_Witness ==
  \E n \in 1..Len(kwCalls) :
    /\ Len(kwCalls[n].text) = 11
    /\ Len(Strip(kwCalls[n].text)) = 9
    /\ RefusedUnscored(kwCalls[n])

\* C12 as stated: extract on a text with fewer than 10 non-whitespace
\* characters is refused without running the scoring pass.
C12_FewNonWhitespaceRefused ==
  \A n \in 1..Len(kwCalls) :
    NonWhitespace(kwCalls[n].text) < 10 => RefusedUnscored(kwCalls[n])

\* process_document is working on a readable plain-text file of 5 characters
\* and has parsed it
ParsedFiveCharTxt ==
  /\ ~IsNothing(pd.file)
  /\ Get(pd.file).file_type = "txt"
  /\ Get(pd.file).fault = "none"
  /\ Len(Get(pd.file).text) = 5
  /\ ~IsNothing(pd.parse_result)

\* C13 (as amended): a plain-text file of 5 characters parses with
\* success=true, its text and char_count 5; it is keyword extraction that
\* refuses the text, and process_document returns FAILED with EMPTY_DOCUMENT
\* taken from the KeywordsResult.
C13_FiveCharsFailAtKeywords ==
  ParsedFiveCharTxt =>
    /\ Get(pd.parse_result).success
    /\ Get(pd.file).undecodable = {} => Get(pd.parse_result).text = Get(pd.file).text
    /\ Get(pd.parse_result).char_count = 5
    /\ Get(pd.parse_result).error_scenario = None
    /\ ~IsNothing(result) =>
         /\ Get(result).status = "failed"
         /\ Get(result).error_scenario = "empty_document"
         /\ Get(result).parse_result.success
         /\ Get(result).summary_result.success
         /\ ~Get(result).keywords_result.success
         /\ Get(result).keywords_result.error_scenario = "empty_document"

C13_Witness ==
  /\ ParsedFiveCharTxt
  /\ Returned("failed")
  /\ Get(result).parse_result.char_count = 5
  /\ Get(result).error_scenario = "empty_document"

\* C13 as stated: a plain-text file of 5 characters yields a ParseResult with
\* success=false and EMPTY_DOCUMENT.
C13_FiveCharsFailAtParse ==
  ParsedFiveCharTxt =>
    /\ ~Get(pd.parse_result).success
    /\ Get(pd.parse_result).error_scenario = "empty_document"

\* the ParseResult invariant
WellFormedParse(r) ==
  /\ r.success => (r.text # <<>> /\ r.char_count = Len(r.text))
  /\ ~r.success => (r.text = <<>> /\ r.char_count = 0 /\ r.error_scenario \in ErrorScenario)

\* C14: every ParseResult the TXT, MD, DOCX and PDF parsers, process_pdf_pages
\* and _parse_document produce has, on success, a non-empty text and
\* char_count equal to its length, and on failure an empty text, char_count 0
\* and an error scenario; a readable plain-text file of content C parses to
\* text C.
C14_ParseResultWellFormed ==
  /\ \A n \in 1..Len(parseCalls) :
       LET c == parseCalls[n]
       IN  ~c.run.raised =>
             /\ WellFormedParse(Get(c.run.result))
             /\ (c.producer = "txt" /\ c.input.fault = "none" /\ c.input.undecodable = {}
                 /\ c.input.text # <<>>) =>
                  (Get(c.run.result).success /\ Get(c.run.result).text = c.input.text)
  /\ ~IsNothing(pd.parse_result) => WellFormedParse(Get(pd.parse_result))

C14_Witness ==
  \E n \in 1..Len(parseCalls) :
    /\ parseCalls[n].producer = "ocr"
    /\ Len(parseCalls[n].input.pages) = 3
    /\ Get(parseCalls[n].run.result).success
    /\ Get(parseCalls[n].run.result).char_count = 17

\* the order in which a text parser opens a file chardet takes for `detected`
ExpectedOrder(producer, detected) ==
  IF producer = "md" \/ detected \in {None, "UTF-8", "cp1251"}
  THEN <<"utf-8", "cp1251", "latin-1", "cp1252">>
  ELSE <<"utf-8", detected, "cp1251", "latin-1", "cp1252">>

IsTextParserCall(c) == c.producer \in {"txt", "md"}

\* the encodings call c opened the file with follow the fixed order, and all
\* but the last of them failed to decode it
TriedInOrder(c) ==
  /\ c.run.tried # <<>>
  /\ Len(c.run.tried) <= Len(ExpectedOrder(c.producer, c.input.detected))
  /\ c.run.tried = SubSeq(ExpectedOrder(c.producer, c.input.detected), 1, Len(c.run.tried))
  /\ \A i \in 1..(Len(c.run.tried) - 1) : Read(c.input, c.run.tried[i]).error # "none"

\* C15 (as amended): the plain-text and Markdown parsers open the file with
\* their encodings in a fixed order (utf-8, for TXT then the detected encoding,
\* then cp1251, latin-1, cp1252) and the result comes from the first encoding
\* that decodes it, no later one being tried; a decode of zero characters
\* gives EMPTY_DOCUMENT; a readable file never gives CORRUPTED_FILE, latin-1
\* decoding every file: CORRUPTED_FILE comes from the Markdown parser when the
\* read raises another error, at once and with no decode error kept, and the
\* plain-text parser lets that error of its first open escape.
C15_FirstDecodingWins ==
  \A n \in 1..Len(parseCalls) :
    LET c == parseCalls[n]
        last == c.run.tried[Len(c.run.tried)]
    IN  IsTextParserCall(c) =>
          /\ TriedInOrder(c)
          /\ c.input.fault = "none" =>
               /\ ~c.run.raised
               /\ Read(c.input, last).error = "none"
               /\ IF Read(c.input, last).text = <<>>
                  THEN /\ ~Get(c.run.result).success
                       /\ Get(c.run.result).error_scenario = "empty_document"
                  ELSE /\ Get(c.run.result).success
                       /\ Get(c.run.result).text = Read(c.input, last).text
          /\ (c.input.fault # "none" /\ c.producer = "txt") => c.run.raised
          /\ (c.input.fault # "none" /\ c.producer = "md") =>
               /\ ~c.run.raised
               /\ Get(c.run.result).error_scenario = "corrupted_file"
               /\ c.run.tried = <<"utf-8">>
               /\ c.run.last_error = None

C15_Witness ==
  \E n \in 1..Len(parseCalls) :
    /\ parseCalls[n].producer = "txt"
    /\ parseCalls[n].run.tried = <<"utf-8", "euc-tw", "cp1251", "latin-1">>
    /\ parseCalls[n].run.last_error = "cp1251"
    /\ Get(parseCalls[n].run.result).success
    /\ Get(parseCalls[n].run.result).text = parseCalls[n].input.text

\* C15 as stated: a text parser's result is CORRUPTED_FILE only when every
\* encoding of its order was tried and failed to decode, the last decode error
\* being kept.
C15_CorruptedOnlyWhenNoneDecodes ==
  \A n \in 1..Len(parseCalls) :
    LET c == parseCalls[n]
    IN  (/\ IsTextParserCall(c)
         /\ ~c.run.raised
         /\ Get(c.run.result).error_scenario = "corrupted_file")
        => /\ c.run.tried = ExpectedOrder(c.producer, c.input.detected)
           /\ \A i \in 1..Len(c.run.tried) : Read(c.input, c.run.tried[i]).error = "decode"
           /\ c.run.last_error = c.run.tried[Len(c.run.tried)]

\* extension is name in some letter case, behind any number of dots
Spells(extension, name) ==
  \E k \in 0..Len(extension) :
    /\ \A i \in 1..k : extension[i] = "."
    /\ Len(extension) - k = Len(name)
    /\ \A i \in 1..Len(name) : extension[k + i] \in {name[i], UpperLetter(name[i])}

\* the last component of path is a name, a dot and name's letters in some case
HasExtension(path, name) ==
  \E d \in 1..Len(path) :
    /\ path[d] = "."
    /\ Len(path) - d = Len(name)
    /\ \A i \in 1..Len(name) : path[d + i] \in {name[i], UpperLetter(name[i])}
    /\ \E k \in 1..(d - 1) : path[k] # "." /\ \A j \in k..d : path[j] # "/"

SupportedTypes == {"pdf", "docx", "txt", "md"}

\* C16: an extension that spells pdf, docx, txt or md in any letter case, with
\* or without leading dots, is supported by exactly the one parser of that
\* type, and get_parser returns that parser for a path with that extension;
\* any other extension is supported by no parser and get_parser returns None;
\* _parse_document answers UNSUPPORTED_FORMAT exactly when it gets no parser.
C16_OneParserPerExtension ==
  /\ \A n \in 1..Len(directCalls) :
       LET c == directCalls[n]
       IN  /\ c.fn = "supports" =>
                /\ c.output = { t \in SupportedTypes : Spells(c.input.file_extension, Letters(t)) }
                /\ Cardinality(c.output) <= 1
           /\ c.fn = "get_parser" =>
                /\ \A t \in SupportedTypes : HasExtension(c.input.file_path, Letters(t)) <=> c.output = t
                /\ (\A t \in SupportedTypes : ~HasExtension(c.input.file_path, Letters(t))) <=> c.output = None
  /\ ~IsNothing(pd.parse_result) =>
       (Get(pd.parse_result).error_scenario = "unsupported_format"
          <=> GetParserByType(Get(pd.metadata).file_type) = None)

C16_Witness ==
  \E n \in 1..Len(directCalls) :
    /\ directCalls[n].fn = "supports"
    /\ directCalls[n].input.file_extension = <<".", "D", "o", "C", "x">>
    /\ directCalls[n].output = {"docx"}

CyrillicLetters == {"zh", "ya", "YA"}

LatinLetters == {"x", "a", "n", "X", "A", "N"}

NumberOf(text, letters) == Cardinality({ i \in 1..Len(text) : text[i] \in letters })

InWord(text, i) ==
  i >= 1 /\ i <= Len(text) /\ text[i] \in CyrillicLetters \cup LatinLetters \cup {"1"}

\* word stands in text as a whole word, in any letter case
WholeWordIn(text, word) ==
  \E i \in 1..Len(text) :
    /\ i + Len(word) - 1 <= Len(text)
    /\ \A k \in 1..Len(word) : LowerText(text)[i + k - 1] = word[k]
    /\ ~InWord(text, i - 1)
    /\ ~InWord(text, i + Len(word))

MarkerMatches(text, markers) == Cardinality({ m \in markers : WholeWordIn(text, m) })

\* C17: detect answers "en" for an empty or all-whitespace text and for a text
\* without letters, "ru" when more than 0.7 of the letters are Cyrillic, "en"
\* when fewer than 0.3 are, and otherwise (0.7 and 0.3 included) the locale
\* with more marker words standing in the text, "ru" when they tie and the
\* text has a Cyrillic letter, "en" when they tie and it has none.
C17_DetectByRatioThenMarkers ==
  \A n \in 1..Len(directCalls) :
    LET text == directCalls[n].input.text
        c == NumberOf(text, CyrillicLetters)
        l == NumberOf(text, LatinLetters)
        ru == MarkerMatches(text, RUSSIAN_MARKERS)
        en == MarkerMatches(text, ENGLISH_MARKERS)
    IN  directCalls[n].fn = "detect" =>
          directCalls[n].output =
            IF \A i \in 1..Len(text) : text[i] \in {" ", "nl"} THEN "en"
            ELSE IF c + l = 0 THEN "en"
            ELSE IF 10 * c > 7 * (c + l) THEN "ru"
            ELSE IF 10 * c < 3 * (c + l) THEN "en"
            ELSE IF ru > en THEN "ru"
            ELSE IF en > ru THEN "en"
            ELSE IF c > 0 THEN "ru"
            ELSE "en"

\* seven Cyrillic letters of ten and an English marker word: the tie-break
\* decides, for "en"
C17_Witness ==
  \E n \in 1..Len(directCalls) :
    /\ directCalls[n].fn = "detect"
    /\ NumberOf(directCalls[n].input.text, CyrillicLetters) = 7
    /\ NumberOf(directCalls[n].input.text, LatinLetters) = 3
    /\ WholeWordIn(directCalls[n].input.text, <<"a">>)
    /\ directCalls[n].output = "en"

RECURSIVE Power(_, _)
Power(b, e) == IF e = 0 THEN 1 ELSE b * Power(b, e - 1)

\* min(base_delay * exponential_base^a, max_delay) as a number, for a base of
\* at least 1: after 10 doublings the product is past every max_delay
CappedPower(cfg, a) ==
  IF cfg.exponential_base = 1 THEN Min(cfg.base_delay, cfg.max_delay)
  ELSE IF a > 10 THEN cfg.max_delay
  ELSE Min(cfg.base_delay * Power(cfg.exponential_base, a), cfg.max_delay)

\* C18: with jitter disabled, get_delay(a) returns
\* min(base_delay * exponential_base^a, max_delay) for every attempt index
\* a >= 0, a value that never exceeds max_delay.
C18_DelayIsCappedPower ==
  \A n \in 1..Len(directCalls) :
    LET c == directCalls[n]
    IN  (c.fn = "get_delay" /\ ~c.input.config.jitter) =>
          /\ ~c.output.raised
          /\ Get(c.output.value) = CappedPower(c.input.config, c.input.attempt)
          /\ Get(c.output.value) <= c.input.config.max_delay

\* the same of the calls that return
C18_DelayIsCappedPowerWhenReturned ==
  \A n \in 1..Len(directCalls) :
    LET c == directCalls[n]
    IN  (c.fn = "get_delay" /\ ~c.input.config.jitter /\ ~c.output.raised) =>
          /\ Get(c.output.value) = CappedPower(c.input.config, c.input.attempt)
          /\ Get(c.output.value) <= c.input.config.max_delay

\* the strings NotificationTemplates holds for failures, and the two fixed
\* generic-error strings
FailureTemplates ==
  {"ERROR_UNSUPPORTED_FORMAT", "ERROR_FILE_TOO_LARGE", "ERROR_CORRUPTED", "ERROR_PASSWORD",
   "ERROR_EMPTY", "ERROR_OCR", "ERROR_API", "ERROR_STORAGE", "ERROR_URL",
   "unknown_error", "processing_error"}

NonFailureTemplates == {"INSTRUCTIONS", "PROCESSING_STARTED", "PROCESSING_COMPLETE"}

\* C19: every message handle_document sends on a failure path is one of the
\* fixed template strings or the fixed generic-error string and carries no
\* text of an exception; the text of the exception is in the audit log.
C19_FailureMessagesAreTemplates ==
  \A n \in 1..Len(directCalls) :
    LET c == directCalls[n]
    IN  c.fn = "handle_document" =>
          \A k \in 1..Len(c.output.sent) :
            /\ c.output.sent[k].exception_text = None
            /\ c.output.sent[k].template \in FailureTemplates \cup NonFailureTemplates

TwoDone ==
  /\ pc = "two"
  /\ \A i \in Instances :
       two.inst[i].constructed => (~IsNothing(two.inst[i].job) /\ ~IsNothing(two.inst[i].result))

\* C20: when the constructed DocumentProcessor instances, each with its own
\* ProcessingLogger and log file, have processed their documents in any
\* interleaving, each document has the ProcessingResult, and each instance's
\* own log file holds exactly the audit records, of that document processed
\* alone.
C20_InstancesShareNothing ==
  TwoDone =>
    \A i \in Instances :
      two.inst[i].constructed =>
        LET job == Get(two.inst[i].job)
            alone == JobRuns[job]
        IN  /\ Get(two.inst[i].result) = alone.result
            /\ two.files[LogFile(i)] = alone.logged

\* the saves made of a row by a storage that is, or gets, authenticated
IsSave(c) ==
  /\ c.fn \in {"save_row", "save_result"}
  /\ c.input.storage.authenticated \/ c.input.auth_ok

\* a required field of the row the call is about is empty
LacksRequired(c) ==
  IF c.fn = "save_row"
  THEN \/ c.input.row.timestamp = ""
       \/ c.input.row.file_name = ""
       \/ c.input.row.summary = <<>>
       \/ c.input.row.keywords = <<>>
       \/ (c.input.row.uploader_id = "" /\ c.input.row.uploader_username = "")
  ELSE \/ c.input.result.metadata.file_name = ""
       \/ c.input.result.summary_result.summary = <<>>
       \/ c.input.result.keywords_result.formatted = <<>>

\* C21: save_row and save_result raise GoogleSheetsStorageError with
\* SHEETS_WRITE_ERROR, having attempted no append and leaving the worksheet
\* as it was, exactly when timestamp, file name, summary or keywords is empty
\* or uploader id and uploader username both are; any other row is passed on
\* to the write (an append is attempted).
C21_RowsLackingFieldsRejected ==
  \A n \in 1..Len(directCalls) :
    LET c == directCalls[n]
    IN  IsSave(c) =>
          IF LacksRequired(c)
          THEN /\ c.output.out.raised
               /\ c.output.out.error.type = "GoogleSheetsStorageError"
               /\ c.output.out.error.error_scenario = "sheets_write_error"
               /\ c.output.appends = 0
               /\ c.output.rows = c.input.storage.rows
          ELSE c.output.appends >= 1

\* a row without uploader id but with a username is written
C21_Witness ==
  \E n \in 1..Len(directCalls) :
    /\ directCalls[n].fn = "save_row"
    /\ directCalls[n].input.row.uploader_id = ""
    /\ directCalls[n].input.row.uploader_username = "user"
    /\ ~directCalls[n].output.out.raised
    /\ Len(directCalls[n].output.rows) = Len(directCalls[n].input.storage.rows) + 1

\* a failed result is refused by save_result
C21_WitnessResult ==
  \E n \in 1..Len(directCalls) :
    /\ directCalls[n].fn = "save_result"
    /\ directCalls[n].input.result.status = "failed"
    /\ directCalls[n].output.out.raised
    /\ directCalls[n].output.appends = 0

\* the rows a save added to the worksheet
RowsAdded(c) == Len(c.output.rows) - Len(c.input.storage.rows)

\* C28: one save_row or save_result call adds its row to the worksheet at
\* most once, and exactly once when it returns, whatever calls of append_row
\* and of the row-count read after it fail within the retry budget.
C28_RowAppendedAtMostOnce ==
  \A n \in 1..Len(directCalls) :
    LET c == directCalls[n]
    IN  IsSave(c) =>
          /\ RowsAdded(c) <= 1
          /\ ~c.output.out.raised => RowsAdded(c) = 1

\* file_name ends with a dot and then name's letters, each in either case
EndsWithDotAnd(file_name, name) ==
  /\ Len(file_name) > Len(name)
  /\ file_name[Len(file_name) - Len(name)] = "."
  /\ \A i \in 1..Len(name) :
       file_name[Len(file_name) - Len(name) + i] \in {name[i], UpperLetter(name[i])}

\* C22: validate_file(file_name, file_size) is valid exactly when what stands
\* behind the last dot of file_name is pdf, docx, txt or md in any letter case
\* and 0 <= file_size <= 20 MiB; a name without such an extension gives
\* UNSUPPORTED_FORMAT whatever the size, a name with one and a size below 0 or
\* above 20 MiB gives FILE_TOO_LARGE.
C22_ValidFileIffSupportedAndSized ==
  \A n \in 1..Len(directCalls) :
    LET c == directCalls[n]
        supported == \E t \in SupportedTypes : EndsWithDotAnd(c.input.file_name, Letters(t))
        sized == 0 <= c.input.file_size /\ c.input.file_size <= 20 * 1024 * 1024
    IN  c.fn = "validate_file" =>
          /\ c.output.is_valid <=> (supported /\ sized)
          /\ ~supported => c.output.error_scenario = "unsupported_format"
          /\ (supported /\ ~sized) => c.output.error_scenario = "file_too_large"
          /\ (supported /\ sized) => c.output.error_scenario = None

\* a file of exactly 20 MiB with an upper-case extension is valid
C22_Witness ==
  \E n \in 1..Len(directCalls) :
    /\ directCalls[n].fn = "validate_file"
    /\ directCalls[n].input.file_name = <<"f", ".", "T", "X", "T">>
    /\ directCalls[n].input.file_size = MAX_FILE_SIZE_BYTES
    /\ directCalls[n].output.is_valid

\* event k of the running execute_with_retry is the call with index a
IsCallEvent(k, a) == events[k].kind = "call" /\ events[k].attempt = a

\* event k is the sleep that follows the failed call with index a and lasts
\* get_delay(a): the capped power, scaled by a factor of [0.5, 1.5] under jitter
IsSleepEvent(k, a) ==
  /\ events[k].kind = "sleep"
  /\ events[k].attempt = a
  /\ a + 1 <= op.failures
  /\ IF config.jitter
     THEN /\ 50 * CappedPower(config, a) <= 100 * events[k].delay + 99
          /\ 100 * events[k].delay <= 150 * CappedPower(config, a)
     ELSE events[k].delay = CappedPower(config, a)

\* C23: in one execute_with_retry execution calls and sleeps alternate,
\* beginning with a call; the sleep after the failed call with index i lasts
\* get_delay(i); an execution that made m calls made m-1 sleeps, so none
\* before the first call, after a successful call or after the last failure.
C23_SleepsBetweenCalls ==
  rh.func = "op" =>
    /\ \A k \in 1..Len(events) :
         IF k % 2 = 1 THEN IsCallEvent(k, (k - 1) \div 2) ELSE IsSleepEvent(k, (k \div 2) - 1)
    /\ rh.outcome = "none" => Len(events) = 2 * op.calls
    /\ rh.outcome # "none" => Len(events) = 2 * op.calls - 1

\* three calls, two sleeps: the re-raise after the last failure has no sleep
C23_Witness ==
  /\ rh.func = "op"
  /\ rh.outcome = "raised"
  /\ op.retryable
  /\ op.calls = 3
  /\ Len(events) = 5
  /\ events[4].kind = "sleep"
  /\ events[5].kind = "call"

\* the step is RetryHandler.reset
IsResetStep == pc = "handler" /\ pc' = "handler" /\ opsDone' = opsDone + 1

\* the step enters execute_with_retry
IsStartStep == pc \notin {"retry", "pd_retry"} /\ pc' \in {"retry", "pd_retry"}

\* the step made a call of the operation and slept after it
SleptInStep ==
  /\ events' # events
  /\ events' # <<>>
  /\ events'[Len(events')].kind = "sleep"

\* the calls among the events
CallEvents(evs) == { k \in 1..Len(evs) : evs[k].kind = "call" }

\* C24: attempt_count is the number of calls the most recent execution has
\* made of its operation, 0 when it has made none yet and after reset;
\* last_delay is the delay of the most recent sleep since the handler was
\* constructed or last reset, in whichever execution that sleep was made, and
\* 0 when there was none.
C24_CountersFollowCallsAndSleeps ==
  [][ /\ last_delay' = IF SleptInStep THEN events'[Len(events')].delay
                       ELSE IF IsResetStep THEN 0
                       ELSE last_delay
      /\ attempt_count' = IF IsResetStep \/ IsStartStep THEN 0
                          ELSE IF events' # events THEN Cardinality(CallEvents(events'))
                          ELSE attempt_count ]_vars

\* a second execution that succeeded at once after one that slept: last_delay
\* is still the delay of the first execution
C24_Witness ==
  /\ pc = "handler"
  /\ opsDone = 2
  /\ rh.outcome = "returned"
  /\ op.calls = 1
  /\ attempt_count = 1
  /\ last_delay > 0

\* C24 as stated: after an execution attempt_count is the number of its calls
\* and last_delay the delay of its last sleep, 0 when it made none.
C24_LastDelayOfLatestExecution ==
  (pc = "handler" /\ rh.func = "op" /\ attempt_count > 0) =>
    /\ attempt_count = op.calls
    /\ last_delay = IF Len(events) >= 2 THEN events[Len(events) - 1].delay ELSE 0

\* the exception message holds word in some letter case
Mentions(msg, word) ==
  \E piece \in msg :
    piece \in (CASE word = "rate limit" -> {"rate limit", "Rate limit", "Rate Limit", "RATE LIMIT"}
                 [] word = "rate_limit" -> {"rate_limit", "Rate_Limit", "RATE_LIMIT"}
                 [] word = "timeout" -> {"timeout", "Timeout", "TIMEOUT"})

\* C25: a summarize whose first or corrective generation call raises returns,
\* with success false, an empty summary, sentence_count 0 and the scenario
\* API_RATE_LIMIT when the lower-cased message holds "rate limit" or
\* "rate_limit", else API_TIMEOUT when it holds "timeout", else API_ERROR.
C25_RaisedGenerationClassified ==
  \A n \in 1..Len(sumCalls) :
    LET c == sumCalls[n]
        last == c.calls[Len(c.calls)].outcome
    IN  (c.calls # <<>> /\ last.raised) =>
          /\ ~c.result.success
          /\ c.result.summary = <<>>
          /\ c.result.sentence_count = 0
          /\ c.result.error_scenario =
               IF Mentions(last.msg, "rate limit") \/ Mentions(last.msg, "rate_limit")
               THEN "api_rate_limit"
               ELSE IF Mentions(last.msg, "timeout") THEN "api_timeout"
               ELSE "api_error"

\* the corrective call raises with a message that mentions both, in capitals
C25_Witness ==
  \E n \in 1..Len(sumCalls) :
    /\ Len(sumCalls[n].calls) = 2
    /\ sumCalls[n].calls[2].outcome.raised
    /\ sumCalls[n].calls[2].outcome.msg = {"TIMEOUT", "RATE_LIMIT"}
    /\ sumCalls[n].result.error_scenario = "api_rate_limit"

\* the page yielded recognized text
Recognized(page) == page.success /\ page.text # <<>>

RECURSIVE PagesText(_, _)
\* the texts of the first k pages that yielded text, a blank line between them
PagesText(pages, k) ==
  IF k = 0 THEN <<>>
  ELSE IF ~Recognized(pages[k]) THEN PagesText(pages, k - 1)
  ELSE IF \E j \in 1..(k - 1) : Recognized(pages[j])
  THEN PagesText(pages, k - 1) \o <<"nl", "nl">> \o pages[k].text
  ELSE pages[k].text

\* C26: process_pdf_pages always returns a ParseResult with used_ocr true;
\* no page gives EMPTY_DOCUMENT; pages none of which yields text give
\* OCR_FAILED; an exception mentioning password or encrypted gives
\* PASSWORD_PROTECTED; a missing dependency and any other exception give
\* OCR_FAILED; success comes only with a page that yielded text, and the text
\* is then the texts of those pages in page order, joined by a blank line.
C26_OcrOutcomes ==
  \A n \in 1..Len(parseCalls) :
    LET c == parseCalls[n]
        r == Get(c.run.result)
        read == \E k \in 1..Len(c.input.pages) : Recognized(c.input.pages[k])
    IN  c.producer = "ocr" =>
          /\ ~c.run.raised
          /\ r.used_ocr
          /\ r.success <=> (c.input.fault = "none" /\ read)
          /\ r.success =>
               /\ r.text = PagesText(c.input.pages, Len(c.input.pages))
               /\ r.error_scenario = None
          /\ ~r.success =>
               r.error_scenario =
                 IF c.input.fault \in {"password", "encrypted", "password_poppler"}
                 THEN "password_protected"
                 ELSE IF c.input.fault # "none" THEN "ocr_failed"
                 ELSE IF c.input.pages = <<>> THEN "empty_document"
                 ELSE "ocr_failed"

\* two pages without text: OCR_FAILED, not EMPTY_DOCUMENT
C26_Witness ==
  \E n \in 1..Len(parseCalls) :
    /\ parseCalls[n].producer = "ocr"
    /\ parseCalls[n].input.fault = "none"
    /\ Len(parseCalls[n].input.pages) = 2
    /\ Get(parseCalls[n].run.result).error_scenario = "ocr_failed"

\* the step is the one in which process_document detects the language
IsDetectStep == stageLog' = Append(stageLog, "detect")

\* C27: process_document changes no field of its Metadata but language; it
\* assigns language once, after an extraction that succeeded and before
\* summarization, the detector's result for the extracted text; the record
\* it returns carries that Metadata, so after a failed extraction language
\* is what it was on entry.
C27_OnlyLanguageAttached ==
  /\ [][ (~IsNothing(pd.metadata) /\ ~IsNothing(pd'.metadata)) =>
           IF IsDetectStep
           THEN /\ stageLog = << "parse" >>
                /\ Get(pd.parse_result).success
                /\ IsNothing(pd.summary_result)
                /\ Get(pd'.metadata) =
                     [Get(pd.metadata) EXCEPT !.language = Detect(Get(pd.parse_result).text)]
           ELSE pd'.metadata = pd.metadata ]_vars
  /\ [](~IsNothing(result) =>
          /\ Get(result).metadata = Get(pd.metadata)
          /\ Cardinality({ k \in 1..Len(stageLog) : stageLog[k] = "detect" }) <= 1
          /\ ~Get(pd.parse_result).success => stageLog = << "parse" >>)

\* the language is attached to the Metadata of a text detected as English
C27_Witness ==
  /\ stageLog = << "parse", "detect" >>
  /\ Get(pd.file) = File("txt", "none", T10)
  /\ Get(pd.metadata).language = "en"
  /\ Get(pd.metadata).file_name = "document"

\* ------------------------------------------------------------ C29
IsDownload(c) == c.fn = "download_from_url"

\* C29: a call of download_from_url that returns an error triple (path None)
\* leaves no temporary file of its own on disk, also when the download breaks
\* off while the chunks are written; a temporary file stays only when its
\* path is returned together with the file name and no error
C29_NoTempFileAfterError ==
  \A n \in 1..Len(directCalls) :
    IsDownload(directCalls[n]) =>
      /\ IsNothing(directCalls[n].output.path) => directCalls[n].output.disk = {}
      /\ \A f \in directCalls[n].output.disk :
           /\ directCalls[n].output.path = Some(f.name)
           /\ ~IsNothing(directCalls[n].output.file_name)
           /\ directCalls[n].output.error = None

\* the download broke off after the first chunk was written
C29_BrokenOffReached ==
  \E n \in 1..Len(directCalls) :
    /\ IsDownload(directCalls[n])
    /\ directCalls[n].input.response.fault_at = 2
    /\ directCalls[n].output.disk # {}

\* ------------------------------------------------------------ C30
\* text holds nothing of the document of another call than c
OnlyTextOf(c, text) ==
  \A k \in 1..Len(text) : \A d \in Callers \ {c} : text[k] # PageText([doc |-> d, page |-> 0])[1]

\* C30: when two process_pdf_pages calls run at once in one working directory,
\* in every interleaving each recognition reads the page image its own call
\* wrote, the image a call is about to read is the one it saved (the other
\* call neither replaced nor deleted it), and each returned text holds only
\* text of the call's own document
C30_ConcurrentCallsKeepTheirPages ==
  \A c \in Callers :
    /\ \A n \in 1..Len(ocr.calls[c].reads) :
         ocr.calls[c].reads[n].image = Some([doc |-> c, page |-> ocr.calls[c].reads[n].i])
    /\ ocr.calls[c].pc = "extract" =>
         ocr.fs[TempPath(ocr.calls[c].i)] = Some([doc |-> c, page |-> ocr.calls[c].i])
    /\ ~IsNothing(ocr.calls[c].out) => OnlyTextOf(c, Get(ocr.calls[c].out).text)

\* a call returned a text with text of the other call's document
C30_ForeignTextReturned ==
  \E c \in Callers :
    /\ ~IsNothing(ocr.calls[c].out)
    /\ Get(ocr.calls[c].out).success
    /\ ~OnlyTextOf(c, Get(ocr.calls[c].out).text)

\* a call lost a page: it returned without the text of every page of its own
C30_PageLost ==
  \E c \in Callers :
    /\ ~IsNothing(ocr.calls[c].out)
    /\ OnlyTextOf(c, Get(ocr.calls[c].out).text)
    /\ Get(ocr.calls[c].out) # FinishPdfPages([k \in 1..Len(ocr.calls[c].images) |->
                                                  PageText(ocr.calls[c].images[k])])

\* both calls ran one after the other and each returned its own document
C30_SequentialReached ==
  \A c \in Callers :
    /\ ~IsNothing(ocr.calls[c].out)
    /\ Get(ocr.calls[c].out) = FinishPdfPages([k \in 1..Len(ocr.calls[c].images) |->
                                                  PageText(ocr.calls[c].images[k])])

====
